---- MODULE Spec2Model ----
(***************************************************************************)
(* Model of the options calculator: the OptionsStrategy object             *)
(* (lib/blackScholes.js, kept in src/unnamed/part_001), the                *)
(* BlackScholesCalculator pricing kernel and implied-volatility solver,    *)
(* the second pricing implementation of pages/api/market-data/index.js (kept *)
(* in src/pages/api/market-data/index.js) and the /api/calculate handler   *)
(* (src/unnamed/part_002).                                                 *)
(*                                                                         *)
(* Numbers.  Expiration P&L is piecewise linear, so the strategy part is   *)
(* modelled exactly: a price is an integer number of units of 1/3200       *)
(* dollar, the smallest unit that holds both a cent (32 units) and every   *)
(* midpoint of the bisection of a 0.25 bracket (1/128 dollar = 25 units).  *)
(* A P&L is in the same unit.  The inputs drawn are binary fractions, for  *)
(* which the IEEE-754 arithmetic of the code is exact as well.             *)
(* The pricing kernel is transcendental: there a number is an integer      *)
(* number of units of 1e-7 (ONE), every operation truncated to that        *)
(* resolution where the code's doubles round at about 1e-16 relative.      *)
(***************************************************************************)
EXTENDS Integers, Sequences, FiniteSets, TLC

VARIABLES
    legs,       \* OptionsStrategy.legs: the sequence of legs, in insertion order
    ret,        \* the last call made and what it returned
    args,       \* the arguments (S, K, T, r, sigma, optionType) the pricing functions are applied to
    iv,         \* the implied-volatility request being served: position in the solver's loop and its locals
    prev,       \* the response to the previous implied-volatility request and how its loop ended
    reqs,       \* the strategy requests in flight at /api/calculate: position in the handler, body, results
    heap,       \* the OptionsStrategy object each of those requests constructed: its legs
    loop,       \* a scan of the strategy under way: the loop variables of calculateBreakevens or calculateMaxProfitLoss
    now,        \* Date.now() at /api/market-data, in ms
    cache,      \* the module's cache: an entry (data, timestamp) or none for each key
    rateLimits, \* the module's rateLimits: count, resetTime and limit of each provider
    sent,       \* the HTTP requests sent to each provider since the last reset of its rate window
    env,        \* the providers whose API key is set in process.env
    calls,      \* the requests to /api/market-data being served: position at an await, locals, result
    home        \* the Home page: its React state and the fetches it has in flight

\* the state of /api/market-data and of the page
web == <<now, cache, rateLimits, sent, env, calls, home>>

vars == <<legs, ret, args, iv, prev, reqs, heap, loop, web>>

----------------------------------------------------------------------------
(* Units and bounds *)

Dollar == 32 * 100
Cent == Dollar \div 100

\* Bounds of the model
MaxLegs == 2
MaxQty == 2

\* inputs of addLeg
PositionTypes == {"long", "short"}
OptionTypes == {"call", "put"}
Strikes == {100 * Dollar, 150 * Dollar}
\* 2.375 lies on a bisection midpoint, 5.00 on the 0.25 scan grid
Premiums == {(19 * Dollar) \div 8, 5 * Dollar}
Quantities == 1..MaxQty
Expirations == {30}
\* arguments of calculatePLAtExpiration
StockPrices == {Cent, 90 * Dollar, 100 * Dollar, (205 * Dollar) \div 2, 105 * Dollar, 160 * Dollar}

----------------------------------------------------------------------------
(* JavaScript numbers that may be infinite: Math.min() of no argument is   *)
(* Infinity and Math.max() of none is -Infinity.                           *)

Fin(x) == [inf |-> 0, v |-> x]
PosInf == [inf |-> 1, v |-> 0]
NegInf == [inf |-> -1, v |-> 0]

ExtLe(a, b) ==
    IF a.inf # b.inf THEN a.inf < b.inf
    ELSE IF a.inf = 0 THEN a.v <= b.v ELSE TRUE

ExtMax(a, b) == IF ExtLe(a, b) THEN b ELSE a
ExtMin(a, b) == IF ExtLe(a, b) THEN a ELSE b

\* a + b; opposite infinities (NaN in the code) never meet in the callers
ExtAdd(a, b) ==
    IF a.inf # 0 THEN a
    ELSE IF b.inf # 0 THEN b
    ELSE Fin(a.v + b.v)

ExtNeg(a) == [inf |-> -a.inf, v |-> -a.v]
ExtSub(a, b) == ExtAdd(a, ExtNeg(b))

Max(a, b) == IF a >= b THEN a ELSE b
Min(a, b) == IF a <= b THEN a ELSE b
Abs(a) == IF a < 0 THEN -a ELSE a

\* JavaScript values of a result field: a number or null
Num(x) == [t |-> "number", v |-> x]
Null == [t |-> "null", v |-> 0]
Undefined == [t |-> "undefined", v |-> 0]

----------------------------------------------------------------------------
(* OptionsStrategy *)

LOT_MULTIPLIER == 100

\* LegPLAtExpiration with the short branch computed as the long one
LegPLAtExpiration_ShortAsLong(leg, stockPrice) ==
    LET intrinsicValue ==
            IF leg.optionType = "call"
            THEN Max(0, stockPrice - leg.strike)
            ELSE Max(0, leg.strike - stockPrice)
    IN  (intrinsicValue - leg.premium) * leg.quantity * LOT_MULTIPLIER

\* The body of the forEach of calculatePLAtExpiration: one leg's P&L
LegPLAtExpiration(leg, stockPrice) ==
    LET intrinsicValue ==
            IF leg.optionType = "call"
            THEN Max(0, stockPrice - leg.strike)
            ELSE Max(0, leg.strike - stockPrice)
    IN  IF leg.type = "long"
        THEN (intrinsicValue - leg.premium) * leg.quantity * LOT_MULTIPLIER
        ELSE (leg.premium - intrinsicValue) * leg.quantity * LOT_MULTIPLIER

RECURSIVE PLLoop(_, _, _, _)
PLLoop(ls, i, stockPrice, totalPL) ==
    IF i > Len(ls) THEN totalPL
    ELSE PLLoop(ls, i + 1, stockPrice, totalPL + LegPLAtExpiration(ls[i], stockPrice))

calculatePLAtExpiration(ls, stockPrice) == PLLoop(ls, 1, stockPrice, 0)

\* Math.min(...strikes) and Math.max(...strikes) of the legs' strikes
RECURSIVE MinStrikeFrom(_, _, _)
MinStrikeFrom(ls, i, acc) ==
    IF i > Len(ls) THEN acc ELSE MinStrikeFrom(ls, i + 1, ExtMin(acc, Fin(ls[i].strike)))

RECURSIVE MaxStrikeFrom(_, _, _)
MaxStrikeFrom(ls, i, acc) ==
    IF i > Len(ls) THEN acc ELSE MaxStrikeFrom(ls, i + 1, ExtMax(acc, Fin(ls[i].strike)))

MinStrike(ls) == MinStrikeFrom(ls, 1, PosInf)
MaxStrike(ls) == MaxStrikeFrom(ls, 1, NegInf)

\* the zero-crossing test of calculateBreakevens, used for the scan and the bisection
ZeroCrossing(lastPL, currentPL) ==
    (lastPL <= 0 /\ currentPL >= 0) \/ (lastPL >= 0 /\ currentPL <= 0)

BE_MIN_RANGE == 50 * Dollar
BE_STEP == Dollar \div 4
BE_TOLERANCE == Cent

\* The while loop of calculateBreakevens: the midpoints pushed for one
\* bracket (none or one: the push is followed by a break)
RECURSIVE Bisect(_, _, _, _)
Bisect(ls, low, high, lastPL) ==
    IF ~(high - low > BE_TOLERANCE) THEN <<>>
    ELSE LET mid == (low + high) \div 2
             midPL == calculatePLAtExpiration(ls, mid)
         IN  IF Abs(midPL) < BE_TOLERANCE THEN <<mid>>
             ELSE IF ZeroCrossing(lastPL, midPL)
                  THEN Bisect(ls, low, mid, lastPL)
                  ELSE Bisect(ls, mid, high, midPL)

\* The body of the for loop of calculateBreakevens at the k-th price after
\* startPrice: lastPL is then the P&L at the price before it (it is null, and
\* nothing is tested, at startPrice itself; what the bisection assigns to it is
\* overwritten at the end of the body)
BreakevenAt(ls, startPrice, k) ==
    LET price == startPrice + k * BE_STEP
        lastPL == calculatePLAtExpiration(ls, price - BE_STEP)
        currentPL == calculatePLAtExpiration(ls, price)
    IN  IF ZeroCrossing(lastPL, currentPL)
        THEN Bisect(ls, price - BE_STEP, price, lastPL)
        ELSE <<>>

\* The for loop of calculateBreakevens over the prices number lo..hi, in
\* order (halved rather than unrolled one price at a time)
RECURSIVE BreakevenScan(_, _, _, _)
BreakevenScan(ls, startPrice, lo, hi) ==
    IF lo > hi THEN <<>>
    ELSE IF lo = hi THEN BreakevenAt(ls, startPrice, lo)
    ELSE LET m == (lo + hi) \div 2
         IN  BreakevenScan(ls, startPrice, lo, m) \o BreakevenScan(ls, startPrice, m + 1, hi)

\* the breakeven left as the bisection found it
RoundToCent_None(be) == be

\* Math.round(be * 100) / 100: to the nearest cent, a half rounded up
RoundToCent(be) == ((be * 100 + Dollar \div 2) \div Dollar) * Cent

\* [...new Set(seq)]: the first occurrence of each value, in the order of seq
Dedupe(seq) ==
    LET first == {i \in 1..Len(seq) : \A j \in 1..(i - 1) : seq[j] # seq[i]}
        rank(i) == Cardinality({j \in first : j <= i})
    IN  [k \in 1..Cardinality(first) |-> seq[CHOOSE i \in first : rank(i) = k]]

calculateBreakevens(ls) ==
    LET minStrike == MinStrike(ls)
        maxStrike == MaxStrike(ls)
        priceRange == ExtMax(ExtSub(maxStrike, minStrike), Fin(BE_MIN_RANGE))
        half == Fin(priceRange.v \div 2)
        startPrice == ExtSub(minStrike, half)
        endPrice == ExtAdd(maxStrike, half)
        breakevens ==
            \* with no leg the loop runs from Infinity to -Infinity: not at all
            IF ExtLe(startPrice, endPrice)
            THEN BreakevenScan(ls, startPrice.v, 1, (endPrice.v - startPrice.v) \div BE_STEP)
            ELSE <<>>
    IN  Dedupe([i \in 1..Len(breakevens) |-> RoundToCent(breakevens[i])])

MPL_MIN_RANGE == 100 * Dollar
MPL_STEP == Dollar \div 2
MPL_LOW == Cent

\* The for loop of calculateMaxProfitLoss over the prices number lo..hi
\* (from startPrice, 0.5 apart): <<maxProfit, maxLoss>> of the samples
RECURSIVE ExtremaScan(_, _, _, _)
ExtremaScan(ls, startPrice, lo, hi) ==
    IF lo = hi
    THEN LET pl == calculatePLAtExpiration(ls, startPrice + lo * MPL_STEP)
         IN  <<Fin(pl), Fin(pl)>>
    ELSE LET m == (lo + hi) \div 2
             a == ExtremaScan(ls, startPrice, lo, m)
             b == ExtremaScan(ls, startPrice, m + 1, hi)
         IN  <<ExtMax(a[1], b[1]), ExtMin(a[2], b[2])>>

calculateMaxProfitLoss(ls) ==
    LET minStrike == MinStrike(ls)
        maxStrike == MaxStrike(ls)
        priceRange == ExtMax(ExtSub(maxStrike, minStrike), Fin(MPL_MIN_RANGE))
        startPrice == ExtMax(Fin(MPL_LOW), ExtSub(minStrike, priceRange))
        endPrice == ExtAdd(maxStrike, priceRange)
        scan == IF ExtLe(startPrice, endPrice)
                THEN ExtremaScan(ls, startPrice.v, 0, (endPrice.v - startPrice.v) \div MPL_STEP)
                ELSE <<NegInf, PosInf>>
        extremeLow == calculatePLAtExpiration(ls, MPL_LOW)
        \* endPrice is infinite only with no leg, and then the price is not read
        extremeHigh == calculatePLAtExpiration(ls, endPrice.v * 2)
        maxProfit == ExtMax(ExtMax(scan[1], Fin(extremeLow)), Fin(extremeHigh))
        maxLoss == ExtMin(ExtMin(scan[2], Fin(extremeLow)), Fin(extremeHigh))
    IN  [maxProfit |-> IF maxProfit = NegInf THEN Null ELSE Num(maxProfit.v),
         maxLoss |-> IF maxLoss = PosInf THEN Null ELSE Num(maxLoss.v)]

----------------------------------------------------------------------------
(* Fixed-point numbers for the pricing kernel.  A real x is the integer     *)
(* x * ONE, ONE = 10^7, so that a price below 214 dollars, a volatility, a  *)
(* time in years and a probability all fit the 32-bit integers of TLC with  *)
(* a resolution of 1e-7.  As an IEEE-754 operation rounds its result to 53  *)
(* bits, each operation here rounds to the 1e-7 grid.                       *)

BASE == 100 * 100
ONE == BASE * 1000
HALF == ONE \div 2
\* the largest magnitude a quotient keeps: larger ones saturate to it
FIX_MAX == 200 * ONE

Sign(a) == IF a < 0 THEN -1 ELSE 1

\* |a| * |b| / ONE rounded down, by limbs of BASE so that no product overflows
MulAbs(a, b) ==
    LET a1 == a \div BASE
        a0 == a % BASE
        b1 == b \div BASE
        b0 == b % BASE
        x == a1 * b0
        y == a0 * b1
        c == (a0 * b0) \div BASE
    IN  a1 * b1 * 10 + (x \div 1000) + (y \div 1000) + (((x % 1000) + (y % 1000) + c) \div 1000)

\* a * b
FMul(a, b) == Sign(a) * Sign(b) * MulAbs(Abs(a), Abs(b))

\* r * 10^n / b rounded down, for 0 <= r < b, one decimal digit at a time
RECURSIVE DivDigits(_, _, _, _)
DivDigits(r, b, n, q) ==
    IF n = 0 THEN q
    ELSE DivDigits((r * 10) % b, b, n - 1, (q * 10) + ((r * 10) \div b))

\* |a| / |b| in fixed point, saturated at FIX_MAX; a divisor too large for
\* the digit loop is first scaled down together with the dividend
RECURSIVE DivAbs(_, _)
DivAbs(a, b) ==
    IF b > 2 * BASE * BASE THEN DivAbs(a \div 16, b \div 16)
    ELSE IF a \div b >= FIX_MAX \div ONE THEN FIX_MAX
    ELSE ((a \div b) * ONE) + DivDigits(a % b, b, 7, 0)

\* a / b, b # 0
FDiv(a, b) == Sign(a) * Sign(b) * DivAbs(Abs(a), Abs(b))

\* Math.sqrt(a), a >= 0: Newton's iteration from above
RECURSIVE SqrtFrom(_, _)
SqrtFrom(a, x) ==
    LET y == (x + FDiv(a, x)) \div 2
    IN  IF y >= x THEN x ELSE SqrtFrom(a, y)

Sqrt(a) == IF a <= 0 THEN 0 ELSE SqrtFrom(a, IF a > ONE THEN a ELSE ONE)

LN2 == 6931472

\* sum of z^k / k! for k = 0 .. (Horner's rule from term n up), |z| <= ln 2
RECURSIVE ExpSeries(_, _, _)
ExpSeries(z, k, t) ==
    IF k = 0 THEN t ELSE ExpSeries(z, k - 1, ONE + (FMul(z, t) \div k))

RECURSIVE Pow2(_)
Pow2(n) == IF n = 0 THEN 1 ELSE 2 * Pow2(n - 1)

\* Math.exp(x) for x below ln(200); 0 once the value is below the resolution
Exp(x) ==
    IF x < -17 * ONE THEN 0
    ELSE IF x <= 0
         THEN LET n == (-x) \div LN2
              IN  ExpSeries(x + n * LN2, 12, ONE) \div Pow2(n)
         ELSE LET n == x \div LN2
              IN  ExpSeries(x - n * LN2, 12, ONE) * Pow2(n)

\* 2 * atanh(u) = 2 * (u + u^3/3 + u^5/5 + ...), |u| <= 0.18
RECURSIVE AtanhSeries(_, _, _, _)
AtanhSeries(u2, k, term, acc) ==
    IF k > 17 \/ term = 0 THEN acc
    ELSE AtanhSeries(u2, k + 2, FMul(term, u2), acc + (term \div k))

\* Math.log(q), q > 0: q is halved or doubled into [0.71, 1.42], where
\* log(m) = 2 * atanh((m - 1) / (m + 1))
RECURSIVE Ln(_)
Ln(q) ==
    IF q > (ONE \div 1000) * 1415 THEN LN2 + Ln(q \div 2)
    ELSE IF q < (ONE \div 1000) * 707 THEN Ln(q * 2) - LN2
    ELSE LET u == FDiv(q - ONE, q + ONE)
         IN  2 * AtanhSeries(FMul(u, u), 1, u, 0)

\* a / n for an integer n > 0, rounded towards zero
DivInt(a, n) == Sign(a) * (Abs(a) \div n)

\* x * x; beyond the range of the fixed point it saturates (exp(-x*x) and
\* exp(-x*x/2) are 0 at this resolution from x*x = 35 on)
Square(x) == IF Abs(x) > 14 * ONE THEN FIX_MAX ELSE FMul(x, x)

----------------------------------------------------------------------------
(* BlackScholesCalculator (lib/blackScholes.js) *)

A1 == 2548296
A2 == -2844967
A3 == 14214137
A4 == -14531520
A5 == 10614054
P == 3275911
SQRT2 == 14142136
SQRT_2PI == 25066283
DAYS_PER_YEAR == 365

\* the polynomial of normalCDF times t * exp(-x*x)
ErfcApprox(x) ==
    LET t == FDiv(ONE, ONE + FMul(P, x))
        poly == FMul(FMul(FMul(FMul(FMul(A5, t) + A4, t) + A3, t) + A2, t) + A1, t)
    IN  FMul(poly, Exp(-Square(x)))

\* normalCDF without the sign: the value for |x| whatever the sign of x
normalCDF_NoSign(x) ==
    LET y == ONE - ErfcApprox(FDiv(Abs(x), SQRT2))
    IN  HALF + (y \div 2)

\* 0.5 * (1.0 + sign * y), computed as 0.5 + sign * (0.5 * y): the two
\* roundings of 1 + y and 1 - y, which differ by 1e-16 in the code, then
\* differ by nothing here either
normalCDF(x) ==
    LET sign == IF x < 0 THEN -1 ELSE 1
        y == ONE - ErfcApprox(FDiv(Abs(x), SQRT2))
    IN  HALF + sign * (y \div 2)

normalPDF(x) == FDiv(Exp(-(Square(x) \div 2)), SQRT_2PI)

calculateD1(S, K, T, r, sigma) ==
    FDiv(Ln(FDiv(S, K)) + FMul(r + FMul(FMul(HALF, sigma), sigma), T),
         FMul(sigma, Sqrt(T)))

calculateD2(d1, sigma, T) == d1 - FMul(sigma, Sqrt(T))

callPrice(S, K, T, r, sigma) ==
    IF T <= 0 THEN Max(S - K, 0)
    ELSE LET d1 == calculateD1(S, K, T, r, sigma)
             d2 == calculateD2(d1, sigma, T)
         IN  FMul(S, normalCDF(d1)) - FMul(FMul(K, Exp(FMul(-r, T))), normalCDF(d2))

putPrice(S, K, T, r, sigma) ==
    IF T <= 0 THEN Max(K - S, 0)
    ELSE LET d1 == calculateD1(S, K, T, r, sigma)
             d2 == calculateD2(d1, sigma, T)
         IN  FMul(FMul(K, Exp(FMul(-r, T))), normalCDF(-d2)) - FMul(S, normalCDF(-d1))

\* delta with the expired put read off the call's side of the strike
delta_PutAsCall(S, K, T, r, sigma, optionType) ==
    IF T <= 0
    THEN IF optionType = "call" THEN (IF S > K THEN ONE ELSE 0)
                                ELSE (IF S > K THEN -ONE ELSE 0)
    ELSE LET d1 == calculateD1(S, K, T, r, sigma)
         IN  IF optionType = "call" THEN normalCDF(d1) ELSE normalCDF(d1) - ONE

delta(S, K, T, r, sigma, optionType) ==
    IF T <= 0
    THEN IF optionType = "call" THEN (IF S > K THEN ONE ELSE 0)
                                ELSE (IF S < K THEN -ONE ELSE 0)
    ELSE LET d1 == calculateD1(S, K, T, r, sigma)
         IN  IF optionType = "call" THEN normalCDF(d1) ELSE normalCDF(d1) - ONE

gamma(S, K, T, r, sigma) ==
    IF T <= 0 THEN 0
    ELSE LET d1 == calculateD1(S, K, T, r, sigma)
         IN  FDiv(normalPDF(d1), FMul(FMul(S, sigma), Sqrt(T)))

theta(S, K, T, r, sigma, optionType) ==
    IF T <= 0 THEN 0
    ELSE LET d1 == calculateD1(S, K, T, r, sigma)
             d2 == calculateD2(d1, sigma, T)
             term1 == -FDiv(FMul(FMul(S, normalPDF(d1)), sigma), 2 * Sqrt(T))
         IN  IF optionType = "call"
             THEN LET term2 == FMul(FMul(FMul(r, K), Exp(FMul(-r, T))), normalCDF(d2))
                  IN  DivInt(term1 - term2, DAYS_PER_YEAR)
             ELSE LET term2 == FMul(FMul(FMul(r, K), Exp(FMul(-r, T))), normalCDF(-d2))
                  IN  DivInt(term1 + term2, DAYS_PER_YEAR)

\* per 1% volatility change
vega(S, K, T, r, sigma) ==
    IF T <= 0 THEN 0
    ELSE LET d1 == calculateD1(S, K, T, r, sigma)
         IN  DivInt(FMul(FMul(S, normalPDF(d1)), Sqrt(T)), 100)

rho(S, K, T, r, sigma, optionType) ==
    IF T <= 0 THEN 0
    ELSE LET d1 == calculateD1(S, K, T, r, sigma)
             d2 == calculateD2(d1, sigma, T)
         IN  IF optionType = "call"
             THEN DivInt(FMul(FMul(FMul(K, T), Exp(FMul(-r, T))), normalCDF(d2)), 100)
             ELSE DivInt(FMul(FMul(FMul(-K, T), Exp(FMul(-r, T))), normalCDF(-d2)), 100)

\* timeToExpiration: diffDays is expiry - now in days (an integer here)
\* a leg is given a day of life once it has none
timeToExpiration_AtLeastADay(diffDays) == Max(ONE \div DAYS_PER_YEAR, DivInt(diffDays * ONE, DAYS_PER_YEAR))
timeToExpiration(diffDays) == Max(0, DivInt(diffDays * ONE, DAYS_PER_YEAR))

----------------------------------------------------------------------------
(* The pricing functions of pages/api/market-data/index.js *)

api_normalCDF(x) ==
    LET sign == IF x < 0 THEN -1 ELSE 1
        y == ONE - ErfcApprox(FDiv(Abs(x), SQRT2))
    IN  HALF + sign * (y \div 2)

api_normalPDF(x) == FMul(FDiv(ONE, SQRT_2PI), Exp(-(Square(x) \div 2)))

api_d1(S, K, T, r, sigma) ==
    FDiv(Ln(FDiv(S, K)) + FMul(r + FMul(FMul(HALF, sigma), sigma), T),
         FMul(sigma, Sqrt(T)))

blackScholesCall(S, K, T, r, sigma) ==
    IF T <= 0 THEN Max(S - K, 0)
    ELSE LET d1 == api_d1(S, K, T, r, sigma)
             d2 == d1 - FMul(sigma, Sqrt(T))
             callPrice_ == FMul(S, api_normalCDF(d1))
                           - FMul(FMul(K, Exp(FMul(-r, T))), api_normalCDF(d2))
         IN  Max(callPrice_, 0)

blackScholesPut(S, K, T, r, sigma) ==
    IF T <= 0 THEN Max(K - S, 0)
    ELSE LET d1 == api_d1(S, K, T, r, sigma)
             d2 == d1 - FMul(sigma, Sqrt(T))
             putPrice_ == FMul(FMul(K, Exp(FMul(-r, T))), api_normalCDF(-d2))
                          - FMul(S, api_normalCDF(-d1))
         IN  Max(putPrice_, 0)

calculateGreeks(S, K, T, r, sigma, optionType) ==
    IF T <= 0
    THEN [delta |-> IF optionType = "call" THEN (IF S > K THEN ONE ELSE 0)
                                           ELSE (IF S < K THEN -ONE ELSE 0),
          gamma |-> 0, theta |-> 0, vega |-> 0, rho |-> 0]
    ELSE LET d1 == api_d1(S, K, T, r, sigma)
             d2 == d1 - FMul(sigma, Sqrt(T))
             disc == Exp(FMul(-r, T))
             decay == FDiv(FMul(FMul(-S, api_normalPDF(d1)), sigma), 2 * Sqrt(T))
         IN  [delta |-> IF optionType = "call" THEN api_normalCDF(d1)
                                               ELSE api_normalCDF(d1) - ONE,
              gamma |-> FDiv(api_normalPDF(d1), FMul(FMul(S, sigma), Sqrt(T))),
              theta |-> IF optionType = "call"
                        THEN DivInt(decay - FMul(FMul(FMul(r, K), disc), api_normalCDF(d2)), 365)
                        ELSE DivInt(decay + FMul(FMul(FMul(r, K), disc), api_normalCDF(-d2)), 365),
              vega |-> DivInt(FMul(FMul(S, api_normalPDF(d1)), Sqrt(T)), 100),
              rho |-> IF optionType = "call"
                      THEN DivInt(FMul(FMul(FMul(K, T), disc), api_normalCDF(d2)), 100)
                      ELSE DivInt(FMul(FMul(FMul(-K, T), disc), api_normalCDF(-d2)), 100)]

----------------------------------------------------------------------------
(* OptionsStrategy: the methods that price through the kernel.  A price of *)
(* the strategy (units of 1/3200 dollar) enters the kernel as a fixed-point *)
(* number; a current P&L is kept in ticks of 1e-4 dollar, which holds the  *)
(* lot of 100 shares without leaving the integer range.                    *)

ToOne(x) == x * (ONE \div Dollar)
TICK == ONE \div 10000
DEFAULT_IMPLIED_VOL == ONE \div 4

\* probabilityOfProfit of BlackScholesCalculator, in percent
probabilityOfProfit(S, breakeven, T, sigma) ==
    IF T <= 0 THEN (IF S > breakeven THEN 100 * ONE ELSE 0)
    ELSE LET logReturn == Ln(FDiv(breakeven, S))
             drift == -FMul(FMul(FMul(HALF, sigma), sigma), T)
             diffusion == FMul(sigma, Sqrt(T))
             z == FDiv(logReturn - drift, diffusion)
         IN  (ONE - normalCDF(z)) * 100

\* the body of the forEach of calculateCurrentPL, in ticks
LegCurrentPL(leg, stockPrice, riskFreeRate, impliedVol) ==
    LET T == timeToExpiration(leg.expiration)
        currentPrice ==
            IF leg.optionType = "call"
            THEN callPrice(ToOne(stockPrice), ToOne(leg.strike), T, riskFreeRate, impliedVol)
            ELSE putPrice(ToOne(stockPrice), ToOne(leg.strike), T, riskFreeRate, impliedVol)
    IN  IF leg.type = "long"
        THEN DivInt(currentPrice - ToOne(leg.premium), TICK) * leg.quantity * LOT_MULTIPLIER
        ELSE DivInt(ToOne(leg.premium) - currentPrice, TICK) * leg.quantity * LOT_MULTIPLIER

\* the forEach of calculateCurrentPL stopping after the first leg
CurrentPLLoop_FirstLegOnly(ls, i, stockPrice, riskFreeRate, impliedVol, totalPL) ==
    IF i > Len(ls) THEN totalPL
    ELSE totalPL + LegCurrentPL(ls[i], stockPrice, riskFreeRate, impliedVol)

RECURSIVE CurrentPLLoop(_, _, _, _, _, _)
CurrentPLLoop(ls, i, stockPrice, riskFreeRate, impliedVol, totalPL) ==
    IF i > Len(ls) THEN totalPL
    ELSE CurrentPLLoop(ls, i + 1, stockPrice, riskFreeRate, impliedVol,
                       totalPL + LegCurrentPL(ls[i], stockPrice, riskFreeRate, impliedVol))

calculateCurrentPL(ls, stockPrice, riskFreeRate, impliedVol) ==
    CurrentPLLoop(ls, 1, stockPrice, riskFreeRate, impliedVol, 0)

\* the forEach of getStrategySummary with every leg's premium added
RECURSIVE TotalPremiumLoop_AllAdded(_, _, _)
TotalPremiumLoop_AllAdded(ls, i, totalPremium) ==
    IF i > Len(ls) THEN totalPremium
    ELSE TotalPremiumLoop_AllAdded(ls, i + 1,
             totalPremium + ls[i].premium * ls[i].quantity * LOT_MULTIPLIER)

\* the forEach of getStrategySummary
RECURSIVE TotalPremiumLoop(_, _, _)
TotalPremiumLoop(ls, i, totalPremium) ==
    IF i > Len(ls) THEN totalPremium
    ELSE TotalPremiumLoop(ls, i + 1,
             IF ls[i].type = "long"
             THEN totalPremium - ls[i].premium * ls[i].quantity * LOT_MULTIPLIER
             ELSE totalPremium + ls[i].premium * ls[i].quantity * LOT_MULTIPLIER)

\* maxLoss ? Math.abs(maxProfit / maxLoss) : null; a ratio above 200 is kept as 200
RiskRewardRatio(maxProfit, maxLoss) ==
    IF maxLoss.t = "number" /\ maxLoss.v # 0
    THEN Num(Abs(FDiv(maxProfit.v, maxLoss.v)))
    ELSE Null

\* the probabilityOfProfit field with the last leg's expiration in place of the first's
SummaryProbability_LastLeg(ls, breakevens, currentStockPrice, impliedVol) ==
    IF Len(breakevens) > 0
    THEN Num(probabilityOfProfit(ToOne(currentStockPrice), ToOne(breakevens[1]),
                                 timeToExpiration(ls[Len(ls)].expiration), impliedVol))
    ELSE Null

\* the probabilityOfProfit field
SummaryProbability(ls, breakevens, currentStockPrice, impliedVol) ==
    IF Len(breakevens) > 0
    THEN Num(probabilityOfProfit(ToOne(currentStockPrice), ToOne(breakevens[1]),
                                 timeToExpiration(ls[1].expiration), impliedVol))
    ELSE Null

getStrategySummary(ls, currentStockPrice, riskFreeRate, impliedVol) ==
    LET breakevens == calculateBreakevens(ls)
        mpl == calculateMaxProfitLoss(ls)
    IN  [breakevens |-> breakevens,
         maxProfit |-> mpl.maxProfit,
         maxLoss |-> mpl.maxLoss,
         currentPL |-> calculateCurrentPL(ls, currentStockPrice, riskFreeRate, impliedVol),
         totalPremium |-> TotalPremiumLoop(ls, 1, 0),
         riskRewardRatio |-> RiskRewardRatio(mpl.maxProfit, mpl.maxLoss),
         probabilityOfProfit |-> SummaryProbability(ls, breakevens, currentStockPrice, impliedVol)]

----------------------------------------------------------------------------
(* The strategy object as a state machine: one action per method call *)

\* no scan under way.  origin names the number that the prices of the scan
\* and the strikes of the legs are counted from: "0", or "1e16" for legs whose
\* strikes are around 1e16 dollars, where neighbouring doubles are 2 apart.
NoLoop ==
    [pc |-> "idle", kind |-> "none", origin |-> "0", step |-> 0, price |-> 0,
     startPrice |-> 0, endPrice |-> 0, passes |-> 0, lastPL |-> Null,
     low |-> 0, high |-> 0, halvings |-> 0, breakevens |-> <<>>,
     maxProfit |-> NegInf, maxLoss |-> PosInf]

\* /api/market-data before its first request and the page before it is
\* mounted.  Time is counted from one tick before the first request: Date.now()
\* is above the initial resetTime 0 from the start.
CACHE_DURATION == 60000
\* the 60000 of canUseAPI
RATE_WINDOW == 60000
TICK_MS == CACHE_DURATION \div 2
PROVIDERS == <<"polygon", "fmp", "alphavantage", "twelvedata">>
ProviderNames == {PROVIDERS[i] : i \in 1..Len(PROVIDERS)}
POLYGON_LIMIT == 5000
FMP_LIMIT == 300
ALPHAVANTAGE_LIMIT == 5
TWELVEDATA_LIMIT == 8
InitialRateLimits ==
    [p \in ProviderNames |->
        [count |-> 0, resetTime |-> 0,
         limit |-> CASE p = "polygon" -> POLYGON_LIMIT
                     [] p = "fmp" -> FMP_LIMIT
                     [] p = "alphavantage" -> ALPHAVANTAGE_LIMIT
                     [] p = "twelvedata" -> TWELVEDATA_LIMIT]]

\* the symbols whose cache entries the model keeps; OTHER_SYMBOL stands for
\* every symbol asked for once only, whose entry is written and never read
Symbols == {"AAPL"}
OTHER_SYMBOL == "OTHER"
CacheKeys == {"quote_" \o s : s \in Symbols} \cup {"options_" \o s \o "_all" : s \in Symbols}
NoCache == [k \in CacheKeys |-> Null]

\* requests to /api/market-data the model follows; they can be in flight together
MaxCalls == 2
CallSlots == 1..MaxCalls
IdleCall ==
    [pc |-> "idle", type |-> "none", symbol |-> "", includeVolatility |-> FALSE,
     provider |-> 0, data |-> Null, tried |-> <<>>, contacted |-> <<>>,
     fromCache |-> FALSE, response |-> Undefined]
NoCalls == [c \in CallSlots |-> IdleCall]

\* useState of Home before the first effect has run
InitialHome ==
    [mounted |-> FALSE, symbol |-> "AAPL", marketData |-> Null, optionsChainData |-> Null,
     loading |-> [marketData |-> FALSE, optionsChain |-> FALSE], error |-> "null",
     fetches |-> {}, started |-> 0]

InitWeb ==
    /\ now = TICK_MS
    /\ cache = NoCache
    /\ rateLimits = InitialRateLimits
    /\ sent = [p \in ProviderNames |-> 0]
    /\ env = ProviderNames
    /\ calls = NoCalls
    /\ home = InitialHome

\* requests to /api/calculate that can be in flight together
MaxRequests == 2
Requests == 1..MaxRequests

\* a request slot before a request arrives: no body, no strategy object, no results
IdleRequest ==
    [pc |-> "idle", body |-> Undefined, strategy |-> 0, added |-> 0,
     summary |-> Undefined, plData |-> Undefined, response |-> Undefined]
NoRequests == [r \in Requests |-> IdleRequest]
\* the legs of the OptionsStrategy objects: none constructed yet
NoStrategies == [o \in Requests |-> <<>>]

Returned(op, arg, value) == [op |-> op, arg |-> arg, value |-> value]

NoArgs == [S |-> 0, K |-> 0, T |-> 0, r |-> 0, sigma |-> 0, optionType |-> "call"]
Idle == [pc |-> "idle", exit |-> "none", i |-> 0, sigma |-> 0, marketPrice |-> 0,
         S |-> 0, K |-> 0, T |-> 0, r |-> 0, optionType |-> "call"]
NoPrev == [exit |-> "none", response |-> Undefined]

\* new OptionsStrategy()
Init ==
    /\ legs = <<>>
    /\ ret = Returned("new", <<>>, Undefined)
    /\ args = NoArgs
    /\ iv = Idle
    /\ prev = NoPrev
    /\ reqs = NoRequests
    /\ heap = NoStrategies
    /\ InitWeb
    /\ loop = NoLoop

\* addLeg: parseFloat and parseInt leave the numbers drawn here as they are
AddLeg(type, strike, premium, quantity, optionType, expiration) ==
    /\ Len(legs) < MaxLegs
    /\ legs' = Append(legs, [type |-> type, strike |-> strike, premium |-> premium,
                             quantity |-> quantity, optionType |-> optionType,
                             expiration |-> expiration])
    /\ ret' = Returned("addLeg", <<>>, Undefined)
    /\ UNCHANGED <<args, iv, prev, reqs, heap, loop, web>>

ClearLegs ==
    /\ legs' = <<>>
    /\ ret' = Returned("clearLegs", <<>>, Undefined)
    /\ UNCHANGED <<args, iv, prev, reqs, heap, loop, web>>

CalculatePLAtExpiration(stockPrice) ==
    /\ ret' = Returned("calculatePLAtExpiration", <<stockPrice>>,
                       calculatePLAtExpiration(legs, stockPrice))
    /\ UNCHANGED <<legs, args, iv, prev, reqs, heap, loop, web>>

CalculateBreakevens ==
    /\ ret' = Returned("calculateBreakevens", <<>>, calculateBreakevens(legs))
    /\ UNCHANGED <<legs, args, iv, prev, reqs, heap, loop, web>>

CalculateMaxProfitLoss ==
    /\ ret' = Returned("calculateMaxProfitLoss", <<>>, calculateMaxProfitLoss(legs))
    /\ UNCHANGED <<legs, args, iv, prev, reqs, heap, loop, web>>

Next ==
    \/ \E type \in PositionTypes, strike \in Strikes, premium \in Premiums,
          quantity \in Quantities, optionType \in OptionTypes, expiration \in Expirations :
            AddLeg(type, strike, premium, quantity, optionType, expiration)
    \/ ClearLegs
    \/ \E stockPrice \in StockPrices : CalculatePLAtExpiration(stockPrice)

\* The strategy object under addLeg, clearLegs and calculatePLAtExpiration
Spec == Init /\ [][Next]_vars

NextScan ==
    \/ \E type \in PositionTypes, strike \in Strikes, premium \in Premiums,
          quantity \in Quantities, optionType \in OptionTypes, expiration \in Expirations :
            AddLeg(type, strike, premium, quantity, optionType, expiration)
    \/ ClearLegs
    \/ CalculateBreakevens
    \/ CalculateMaxProfitLoss

\* The strategy object under addLeg, clearLegs and the two scans
SpecScan == Init /\ [][NextScan]_vars

----------------------------------------------------------------------------
(* Claims about the strategy object *)

IsLongCall(ls) ==
    Len(ls) = 1 /\ ls[1].type = "long" /\ ls[1].optionType = "call"

\* a long call and a long put at one strike, in either order, one quantity
IsLongStraddle(ls) ==
    /\ Len(ls) = 2
    /\ ls[1].type = "long" /\ ls[2].type = "long"
    /\ {ls[1].optionType, ls[2].optionType} = {"call", "put"}
    /\ ls[1].strike = ls[2].strike
    /\ ls[1].quantity = ls[2].quantity

Near(x, y, eps) == Abs(x - y) <= eps

\* C1: calculateBreakevens returns exactly the zero crossings of the
\* expiration P&L: one value within 0.01 of K+p for a single long call, two
\* values within 0.01 of K-(p1+p2) and K+(p1+p2) for a long straddle.
C1_BreakevensAreTheZeroCrossings ==
    ret.op = "calculateBreakevens" =>
        /\ IsLongCall(legs) =>
              /\ Len(ret.value) = 1
              /\ Near(ret.value[1], legs[1].strike + legs[1].premium, Cent)
        /\ IsLongStraddle(legs) =>
              LET K == legs[1].strike
                  p == legs[1].premium + legs[2].premium
              IN  /\ Len(ret.value) = 2
                  /\ \E i, j \in 1..2 :
                        /\ i # j
                        /\ Near(ret.value[i], K - p, Cent)
                        /\ Near(ret.value[j], K + p, Cent)

\* The claim's sum, leg by leg: (intrinsic - premium) * quantity * 100 for a
\* long leg, (premium - intrinsic) * quantity * 100 for a short one
C2_Intrinsic(leg, S) ==
    IF leg.optionType = "call"
    THEN (IF S - leg.strike > 0 THEN S - leg.strike ELSE 0)
    ELSE (IF leg.strike - S > 0 THEN leg.strike - S ELSE 0)

C2_LegTerm(leg, S) ==
    IF leg.type = "long"
    THEN (C2_Intrinsic(leg, S) - leg.premium) * leg.quantity * 100
    ELSE (leg.premium - C2_Intrinsic(leg, S)) * leg.quantity * 100

RECURSIVE C2_SumOver(_, _, _)
C2_SumOver(ls, I, S) ==
    IF I = {} THEN 0
    ELSE LET i == CHOOSE x \in I : TRUE
         IN  C2_LegTerm(ls[i], S) + C2_SumOver(ls, I \ {i}, S)

\* C2: for every price S and every list of legs, calculatePLAtExpiration(S)
\* is the sum over the legs of (intrinsic - premium) * quantity * 100 for the
\* long legs and (premium - intrinsic) * quantity * 100 for the short ones.
C2_PLAtExpirationIsTheSumOverLegs ==
    ret.op = "calculatePLAtExpiration" =>
        ret.value = C2_SumOver(legs, DOMAIN legs, ret.arg[1])

\* a long and a short leg, a call and a put, one of them in the money
C2_Witness ==
    /\ ret.op = "calculatePLAtExpiration"
    /\ Len(legs) = 2
    /\ legs[1].type = "long" /\ legs[2].type = "short"
    /\ legs[1].optionType = "call" /\ legs[2].optionType = "put"
    /\ legs[1].quantity # legs[2].quantity
    /\ ret.arg[1] > legs[1].strike
    /\ ret.value # 0

\* C3: with at least one leg, at every leg strike K the sampled extrema agree
\* with the exact P&L: maxProfit >= P(K) - 0.01 and maxLoss <= P(K) + 0.01;
\* for a long straddle maxLoss is -(p1+p2)*100 (times the quantity).
C3_ExtremaAgreeAtEveryStrike ==
    (ret.op = "calculateMaxProfitLoss" /\ Len(legs) >= 1) =>
        /\ ret.value.maxProfit.t = "number"
        /\ ret.value.maxLoss.t = "number"
        /\ \A i \in 1..Len(legs) :
              LET PK == calculatePLAtExpiration(legs, legs[i].strike)
              IN  /\ ret.value.maxProfit.v >= PK - Cent
                  /\ ret.value.maxLoss.v <= PK + Cent
        /\ IsLongStraddle(legs) =>
              ret.value.maxLoss.v =
                  -(legs[1].premium + legs[2].premium) * legs[1].quantity * 100

\* the slope of the expiration P&L above the highest strike, per contract
NetCalls(ls) ==
    LET signed(i) == IF ls[i].optionType # "call" THEN 0
                     ELSE IF ls[i].type = "long" THEN ls[i].quantity
                     ELSE -ls[i].quantity
        RECURSIVE sum(_)
        sum(i) == IF i > Len(ls) THEN 0 ELSE signed(i) + sum(i + 1)
    IN  sum(1)

\* C4: when the expiration P&L grows without bound as the price rises,
\* maxProfit is reported as the "unbounded" sentinel and not as a number;
\* likewise maxLoss when the P&L is unbounded below.
C4_UnboundedIsReportedAsSentinel ==
    ret.op = "calculateMaxProfitLoss" =>
        /\ NetCalls(legs) > 0 => ret.value.maxProfit.t = "unbounded"
        /\ NetCalls(legs) < 0 => ret.value.maxLoss.t = "unbounded"

\* C5: with zero legs calculateBreakevens returns the empty list and
\* calculateMaxProfitLoss returns maxProfit = null and maxLoss = null.
C5_ZeroLegsGiveEmptyAndNull ==
    legs = <<>> =>
        /\ ret.op = "calculateBreakevens" => ret.value = <<>>
        /\ ret.op = "calculateMaxProfitLoss" =>
              ret.value.maxProfit = Null /\ ret.value.maxLoss = Null

----------------------------------------------------------------------------
(* The pricing functions applied to drawn arguments *)

KernelS == {90 * ONE, 100 * ONE, 110 * ONE}
KernelK == {90 * ONE, 100 * ONE, 150 * ONE}
\* a year past expiry, at expiry, 30 days and a year before it
KernelT == {-ONE, 0, timeToExpiration(30), ONE}
KernelR == {0, ONE \div 20}
KernelSigma == {ONE \div 20, 3 * (ONE \div 10)}

KernelArgs ==
    [S : KernelS, K : KernelK, T : KernelT, r : KernelR, sigma : KernelSigma,
     optionType : OptionTypes]

\* new BlackScholesCalculator(); the arguments of the calls to come
InitBS ==
    /\ legs = <<>>
    /\ ret = Returned("new", <<>>, Undefined)
    /\ args \in KernelArgs
    /\ iv = Idle
    /\ prev = NoPrev
    /\ reqs = NoRequests
    /\ heap = NoStrategies
    /\ InitWeb
    /\ loop = NoLoop

CallPrice ==
    /\ ret' = Returned("callPrice", args, callPrice(args.S, args.K, args.T, args.r, args.sigma))
    /\ UNCHANGED <<legs, args, iv, prev, reqs, heap, loop, web>>

PutPrice ==
    /\ ret' = Returned("putPrice", args, putPrice(args.S, args.K, args.T, args.r, args.sigma))
    /\ UNCHANGED <<legs, args, iv, prev, reqs, heap, loop, web>>

Delta ==
    /\ ret' = Returned("delta", args,
                       delta(args.S, args.K, args.T, args.r, args.sigma, args.optionType))
    /\ UNCHANGED <<legs, args, iv, prev, reqs, heap, loop, web>>

Gamma ==
    /\ ret' = Returned("gamma", args, gamma(args.S, args.K, args.T, args.r, args.sigma))
    /\ UNCHANGED <<legs, args, iv, prev, reqs, heap, loop, web>>

Theta ==
    /\ ret' = Returned("theta", args,
                       theta(args.S, args.K, args.T, args.r, args.sigma, args.optionType))
    /\ UNCHANGED <<legs, args, iv, prev, reqs, heap, loop, web>>

Vega ==
    /\ ret' = Returned("vega", args, vega(args.S, args.K, args.T, args.r, args.sigma))
    /\ UNCHANGED <<legs, args, iv, prev, reqs, heap, loop, web>>

Rho ==
    /\ ret' = Returned("rho", args,
                       rho(args.S, args.K, args.T, args.r, args.sigma, args.optionType))
    /\ UNCHANGED <<legs, args, iv, prev, reqs, heap, loop, web>>

BlackScholesCall ==
    /\ ret' = Returned("blackScholesCall", args,
                       blackScholesCall(args.S, args.K, args.T, args.r, args.sigma))
    /\ UNCHANGED <<legs, args, iv, prev, reqs, heap, loop, web>>

BlackScholesPut ==
    /\ ret' = Returned("blackScholesPut", args,
                       blackScholesPut(args.S, args.K, args.T, args.r, args.sigma))
    /\ UNCHANGED <<legs, args, iv, prev, reqs, heap, loop, web>>

CalculateGreeks ==
    /\ ret' = Returned("calculateGreeks", args,
                       calculateGreeks(args.S, args.K, args.T, args.r, args.sigma, args.optionType))
    /\ UNCHANGED <<legs, args, iv, prev, reqs, heap, loop, web>>

NextBS ==
    \/ CallPrice
    \/ PutPrice
    \/ Delta
    \/ Gamma
    \/ Theta
    \/ Vega
    \/ Rho
    \/ BlackScholesCall
    \/ BlackScholesPut
    \/ CalculateGreeks

\* Both pricing implementations, called in any order on one set of arguments
SpecBS == InitBS /\ [][NextBS]_vars

----------------------------------------------------------------------------
(* Claims about the pricing functions *)

\* the delta of an expired option, as the claim states it
C8_ExpiredDelta(S, K, optionType) ==
    IF optionType = "call" /\ S > K THEN ONE
    ELSE IF optionType = "put" /\ S < K THEN -ONE
    ELSE 0

\* C8: for every S, K and every T <= 0, whatever r and sigma: callPrice and
\* blackScholesCall return max(S-K, 0), putPrice and blackScholesPut return
\* max(K-S, 0), gamma, theta, vega and rho return 0 (as methods and as the
\* fields of calculateGreeks), and delta is 1 for a call with S > K, -1 for
\* a put with S < K and 0 otherwise.
C8_ExpiredValuesAreIntrinsic ==
    args.T <= 0 =>
        /\ ret.op \in {"callPrice", "blackScholesCall"} =>
               ret.value = (IF args.S - args.K > 0 THEN args.S - args.K ELSE 0)
        /\ ret.op \in {"putPrice", "blackScholesPut"} =>
               ret.value = (IF args.K - args.S > 0 THEN args.K - args.S ELSE 0)
        /\ ret.op \in {"gamma", "theta", "vega", "rho"} => ret.value = 0
        /\ ret.op = "delta" => ret.value = C8_ExpiredDelta(args.S, args.K, args.optionType)
        /\ ret.op = "calculateGreeks" =>
               ret.value = [delta |-> C8_ExpiredDelta(args.S, args.K, args.optionType),
                            gamma |-> 0, theta |-> 0, vega |-> 0, rho |-> 0]

\* delta has returned -1 for a put past its expiry with the stock below the strike
C8_Witness ==
    /\ ret.op = "delta"
    /\ args.T < 0 /\ args.optionType = "put" /\ args.S < args.K
    /\ ret.value = -ONE

\* C9: for T > 0 neither callPrice nor putPrice returns a negative price,
\* and the methods of BlackScholesCalculator return what blackScholesCall
\* and blackScholesPut return for the same arguments.
C9_PricesAreFlooredAlike ==
    args.T > 0 =>
        /\ ret.op \in {"callPrice", "putPrice", "blackScholesCall", "blackScholesPut"} =>
               ret.value >= 0
        /\ ret.op = "callPrice" =>
               ret.value = blackScholesCall(args.S, args.K, args.T, args.r, args.sigma)
        /\ ret.op = "putPrice" =>
               ret.value = blackScholesPut(args.S, args.K, args.T, args.r, args.sigma)

PARITY_TOLERANCE == ONE \div 1000000

\* S - K * exp(-r * T)
Forward(S, K, T, r) == S - FMul(K, Exp(FMul(-r, T)))

----------------------------------------------------------------------------
(* impliedVolatility (lib/blackScholes.js) behind the implied_volatility   *)
(* route of /api/calculate: one step per pass through the Newton loop      *)

TOLERANCE == ONE \div 10000
maxIterations == 100
INITIAL_SIGMA == 3 * (ONE \div 10)
SIGMA_MIN == ONE \div 100
SIGMA_MAX == 5 * ONE
DEFAULT_RISK_FREE_RATE == ONE \div 20

\* |x| from which Math.exp(-0.5 * x * x) is 0 as a double (x * x > 1490)
PDF_UNDERFLOW == 386 * (ONE \div 10)

\* vega === 0: the double is 0 for an expired option and once normalPDF(d1)
\* has underflowed, which is far beyond the point where the fixed-point
\* vega is 0
VegaIsZero(S, K, T, r, sigma) ==
    T <= 0 \/ Abs(calculateD1(S, K, T, r, sigma)) > PDF_UNDERFLOW

\* sigma - diff / vega; a vega below the resolution divides a diff of at
\* least the tolerance into a step beyond the clamp's interval
NewtonUpdate(sigma, diff, v) ==
    sigma - (IF v = 0 THEN Sign(diff) * FIX_MAX ELSE FDiv(diff, v))

\* the update left as it is
ClampSigma_None(sigma) == sigma

ClampSigma(sigma) == Max(SIGMA_MIN, Min(SIGMA_MAX, sigma))

\* (x * 100).toFixed(2): the percentage in hundredths of a percent, half up
TO_FIXED_UNIT == ONE \div 10000
ToFixed2Percent(x) == (x + (TO_FIXED_UNIT \div 2)) \div TO_FIXED_UNIT

Response(status, body) == [status |-> status, body |-> body]

IVMarketPrices == {0, ONE \div 4, 10 * ONE, 12 * ONE, 60 * ONE}
IVStockPrices == {0, 100 * ONE}
IVStrikes == {80 * ONE, 90 * ONE, 100 * ONE}
\* days from now to the expiration date of the request
IVExpirations == {0, 30}

InitIV ==
    /\ legs = <<>>
    /\ ret = Returned("new", <<>>, Undefined)
    /\ args = NoArgs
    /\ iv = Idle
    /\ prev = NoPrev
    /\ reqs = NoRequests
    /\ heap = NoStrategies
    /\ InitWeb
    /\ loop = NoLoop

\* handler and handleImpliedVolatility up to the call of impliedVolatility,
\* for a POST of calculationType 'implied_volatility'
HandleImpliedVolatility(marketPrice, strike, expiration, optionType, stockPrice) ==
    LET req == [marketPrice |-> marketPrice, strike |-> strike, expiration |-> expiration,
                optionType |-> optionType, stockPrice |-> stockPrice]
    IN  /\ iv.pc \in {"idle", "done"}
        /\ prev' = IF iv.pc = "done" THEN [exit |-> iv.exit, response |-> ret.value] ELSE prev
        /\ IF stockPrice <= 0
           THEN /\ ret' = Returned("handler", req,
                                   Response(400, [error |-> "Valid stock price is required"]))
                /\ iv' = [Idle EXCEPT !.pc = "done", !.exit = "rejected"]
           ELSE IF marketPrice <= 0
           THEN /\ ret' = Returned("handler", req,
                                   Response(400, [error |-> "Valid market price is required"]))
                /\ iv' = [Idle EXCEPT !.pc = "done", !.exit = "rejected"]
           ELSE /\ ret' = Returned("handler", req, Undefined)
                /\ iv' = [pc |-> "loop", exit |-> "none", i |-> 0, sigma |-> INITIAL_SIGMA,
                          marketPrice |-> marketPrice, S |-> stockPrice, K |-> strike,
                          T |-> timeToExpiration(expiration), r |-> DEFAULT_RISK_FREE_RATE,
                          optionType |-> optionType]
        /\ UNCHANGED <<legs, args, reqs, heap, loop, web>>

\* one pass through the body of the for loop
Iterate ==
    /\ iv.pc = "loop"
    /\ iv.i < maxIterations
    /\ LET price == IF iv.optionType = "call"
                    THEN callPrice(iv.S, iv.K, iv.T, iv.r, iv.sigma)
                    ELSE putPrice(iv.S, iv.K, iv.T, iv.r, iv.sigma)
           diff == price - iv.marketPrice
       IN  IF Abs(diff) < TOLERANCE
           THEN iv' = [iv EXCEPT !.pc = "return", !.exit = "converged"]
           ELSE IF VegaIsZero(iv.S, iv.K, iv.T, iv.r, iv.sigma)
           THEN iv' = [iv EXCEPT !.pc = "return", !.exit = "zeroVega"]
           ELSE iv' = [iv EXCEPT
                          !.sigma = ClampSigma(NewtonUpdate(iv.sigma, diff,
                                        vega(iv.S, iv.K, iv.T, iv.r, iv.sigma) * 100)),
                          !.i = iv.i + 1]
    /\ UNCHANGED <<legs, ret, args, prev, reqs, heap, loop, web>>

\* i < maxIterations fails
LoopExhausted ==
    /\ iv.pc = "loop"
    /\ iv.i >= maxIterations
    /\ iv' = [iv EXCEPT !.pc = "return", !.exit = "exhausted"]
    /\ UNCHANGED <<legs, ret, args, prev, reqs, heap, loop, web>>

\* return sigma, and handleImpliedVolatility's res.status(200).json(...)
Respond ==
    /\ iv.pc = "return"
    /\ ret' = Returned("handler", ret.arg,
                       Response(200, [success |-> TRUE,
                                      result |-> [impliedVolatility |-> iv.sigma,
                                                  annualizedPercentage |-> ToFixed2Percent(iv.sigma)]]))
    /\ iv' = [iv EXCEPT !.pc = "done"]
    /\ UNCHANGED <<legs, args, prev, reqs, heap, loop, web>>

NextIV ==
    \/ \E marketPrice \in IVMarketPrices, strike \in IVStrikes, expiration \in IVExpirations,
          optionType \in OptionTypes, stockPrice \in IVStockPrices :
            HandleImpliedVolatility(marketPrice, strike, expiration, optionType, stockPrice)
    \/ Iterate
    \/ LoopExhausted
    \/ Respond

\* implied_volatility requests served one after the other
SpecIV == InitIV /\ [][NextIV]_vars

----------------------------------------------------------------------------
(* Claims about the solver *)

\* C6: the result of impliedVolatility tells which outcome occurred
\* (converged, exhausted, zero vega): two responses that are the same come
\* from loops that ended the same way, so a sigma that did not meet the
\* tolerance is never returned looking like a converged one.
C6_OutcomeIsDistinguishable ==
    (iv.pc = "done" /\ prev.exit # "none" /\ ret.value = prev.response) =>
        iv.exit = prev.exit

\* C7: the volatility passed to the pricing kernel at every iteration and
\* the volatility returned lie in [0.01, 5.0].
C7_SigmaStaysClamped ==
    /\ iv.pc \in {"loop", "return"} => (SIGMA_MIN <= iv.sigma /\ iv.sigma <= SIGMA_MAX)
    /\ (iv.pc = "done" /\ iv.exit # "rejected") =>
           /\ SIGMA_MIN <= ret.value.body.result.impliedVolatility
           /\ ret.value.body.result.impliedVolatility <= SIGMA_MAX

\* a Newton update has gone above 5.0 and the loop goes on with 5.0
C7_Witness ==
    /\ iv.pc = "loop"
    /\ iv.i >= 1
    /\ iv.sigma = SIGMA_MAX

----------------------------------------------------------------------------
(* impliedVolatility applied to the price callPrice gives for a known sigma *)

RoundTripStrikes == {50 * ONE, 80 * ONE, 90 * ONE, 100 * ONE, 110 * ONE, 150 * ONE}
RoundTripSigmas == {ONE \div 20, ONE \div 4, ONE, 2 * ONE}

RoundTripArgs ==
    [S : {100 * ONE}, K : RoundTripStrikes, T : {timeToExpiration(30), ONE},
     r : {DEFAULT_RISK_FREE_RATE}, sigma : RoundTripSigmas, optionType : {"call"}]

InitRT ==
    /\ legs = <<>>
    /\ ret = Returned("new", <<>>, Undefined)
    /\ args \in RoundTripArgs
    /\ iv = Idle
    /\ prev = NoPrev
    /\ reqs = NoRequests
    /\ heap = NoStrategies
    /\ InitWeb
    /\ loop = NoLoop

\* impliedVolatility(callPrice(S, K, T, r, sigma), S, K, T, r, 'call'):
\* the argument is evaluated and the solver entered
ImpliedVolatilityOfCallPrice ==
    /\ iv.pc = "idle"
    /\ iv' = [pc |-> "loop", exit |-> "none", i |-> 0, sigma |-> INITIAL_SIGMA,
              marketPrice |-> callPrice(args.S, args.K, args.T, args.r, args.sigma),
              S |-> args.S, K |-> args.K, T |-> args.T, r |-> args.r,
              optionType |-> "call"]
    /\ ret' = Returned("callPrice", args, callPrice(args.S, args.K, args.T, args.r, args.sigma))
    /\ UNCHANGED <<legs, args, prev, reqs, heap, loop, web>>

\* return sigma, to a direct caller of the solver
ReturnSigma ==
    /\ iv.pc = "return"
    /\ ret' = Returned("impliedVolatility", args, iv.sigma)
    /\ iv' = [iv EXCEPT !.pc = "done"]
    /\ UNCHANGED <<legs, args, prev, reqs, heap, loop, web>>

\* the for loop: its test, then its body
SolverPass == IF iv.i >= maxIterations THEN LoopExhausted ELSE Iterate

NextRT ==
    \/ ImpliedVolatilityOfCallPrice
    \/ SolverPass
    \/ ReturnSigma

\* The solver run on prices the kernel produced
SpecRT == InitRT /\ [][NextRT]_vars

ROUND_TRIP_TOLERANCE == ONE \div 1000

\* C11: round trip: for sigma in [0.05, 2.0], S, K > 0 and T > 0,
\* impliedVolatility(callPrice(S, K, T, r, sigma), S, K, T, r, 'call')
\* returns a value within 1e-3 of sigma.
C11_RoundTripRecoversSigma ==
    ret.op = "impliedVolatility" => Near(ret.value, args.sigma, ROUND_TRIP_TOLERANCE)

----------------------------------------------------------------------------
(* The strategy object under addLeg and getStrategySummary *)

SummaryStrikes == {100 * Dollar}
\* days from now to the expiration date of a leg: today, and in 30 days
SummaryExpirations == {0, 30}
SummaryStockPrices == {100 * Dollar}

GetStrategySummary(currentStockPrice) ==
    /\ ret' = Returned("getStrategySummary", <<currentStockPrice>>,
                       getStrategySummary(legs, currentStockPrice,
                                          DEFAULT_RISK_FREE_RATE, DEFAULT_IMPLIED_VOL))
    /\ UNCHANGED <<legs, args, iv, prev, reqs, heap, loop, web>>

NextSummary ==
    \/ \E type \in PositionTypes, strike \in SummaryStrikes, premium \in Premiums,
          quantity \in Quantities, optionType \in OptionTypes,
          expiration \in SummaryExpirations :
            AddLeg(type, strike, premium, quantity, optionType, expiration)
    \/ ClearLegs
    \/ \E currentStockPrice \in SummaryStockPrices : GetStrategySummary(currentStockPrice)

SpecSummary == Init /\ [][NextSummary]_vars

----------------------------------------------------------------------------
(* Claims about getStrategySummary *)

\* the orders the legs of ls could have been added in, but the one they were
Reorderings(ls) ==
    {f \in [1..Len(ls) -> 1..Len(ls)] :
        /\ \A i, j \in 1..Len(ls) : f[i] = f[j] => i = j
        /\ \E i \in 1..Len(ls) : f[i] # i}

Reordered(ls, f) == [i \in 1..Len(ls) |-> ls[f[i]]]

RECURSIVE C19_PremiumOver(_, _, _)
C19_PremiumOver(ls, I, type) ==
    IF I = {} THEN 0
    ELSE LET i == CHOOSE j \in I : TRUE
         IN  (IF ls[i].type = type THEN ls[i].premium * ls[i].quantity * 100 ELSE 0)
             + C19_PremiumOver(ls, I \ {i}, type)

\* C19: totalPremium is the sum over short legs of premium * quantity * 100
\* minus the sum over long legs of premium * quantity * 100; it is negative
\* exactly when more is paid than received (net debit) and positive exactly
\* when more is received than paid (net credit).
C19_TotalPremiumIsSigned ==
    ret.op = "getStrategySummary" =>
        LET paid == C19_PremiumOver(legs, DOMAIN legs, "long")
            received == C19_PremiumOver(legs, DOMAIN legs, "short")
        IN  /\ ret.value.totalPremium = received - paid
            /\ ret.value.totalPremium < 0 <=> paid > received
            /\ ret.value.totalPremium > 0 <=> received > paid

\* a summary of a short and a long leg that nets a credit
C19_Witness ==
    /\ ret.op = "getStrategySummary"
    /\ Len(legs) = 2
    /\ legs[1].type = "long" /\ legs[2].type = "short"
    /\ ret.value.totalPremium > 0

\* C20: probabilityOfProfit is null exactly when no breakeven was found;
\* otherwise it is probabilityOfProfit of the current price, the first
\* breakeven, the first leg's time to expiry and the volatility of the
\* call, which for a time to expiry of 0 is 100 if the current price is
\* above the first breakeven and 0 otherwise.
C20_ProbabilityUsesFirstBreakevenAndFirstLeg ==
    ret.op = "getStrategySummary" =>
        /\ ret.value.probabilityOfProfit = Null <=> Len(ret.value.breakevens) = 0
        /\ Len(ret.value.breakevens) > 0 =>
               LET S == ToOne(ret.arg[1])
                   be == ToOne(ret.value.breakevens[1])
                   T == timeToExpiration(legs[1].expiration)
               IN  /\ ret.value.probabilityOfProfit
                          = Num(probabilityOfProfit(S, be, T, DEFAULT_IMPLIED_VOL))
                   /\ T = 0 => ret.value.probabilityOfProfit.v
                                   = (IF S > be THEN 100 * ONE ELSE 0)

\* a summary whose first leg expires today and whose second does not, with
\* the current price above the first breakeven
C20_Witness ==
    /\ ret.op = "getStrategySummary"
    /\ Len(legs) = 2
    /\ legs[1].expiration = 0 /\ legs[2].expiration > 0
    /\ Len(ret.value.breakevens) > 0
    /\ ret.value.probabilityOfProfit = Num(100 * ONE)

----------------------------------------------------------------------------
(* The strategy route of /api/calculate: handler, handleStrategy and
   generatePLCurve.  A request moves through the handler one call on its
   strategy object at a time: constructed, one addLeg per leg of the body,
   getStrategySummary, generatePLCurve, the response. *)

\* the number the step of generatePLCurve divides the price range by
CURVE_DIVISIONS == 100
\* the lowest price of a curve, 0.01
CURVE_FLOOR == Cent

\* generatePLCurve.  priceRange 0 stands for a missing or null priceRange too:
\* `priceRange || currentStockPrice * 0.5` takes the default for each of them.
\* The prices are startPrice + k * step as long as they are <= endPrice, which
\* is what `price += step` yields when step and the sums are exact in doubles
\* (whole multiples of 1/32 cent here).
generatePLCurve(ls, priceRange, currentStockPrice) ==
    LET range == IF priceRange = 0 THEN currentStockPrice \div 2 ELSE priceRange
        startPrice == Max(CURVE_FLOOR, currentStockPrice - range)
        endPrice == currentStockPrice + range
        step == (endPrice - startPrice) \div CURVE_DIVISIONS
        passes == IF endPrice < startPrice THEN 0 ELSE (endPrice - startPrice) \div step + 1
        price(k) == startPrice + (k - 1) * step
    IN  [atExpiration |-> [k \in 1..passes |->
                             [stockPrice |-> price(k),
                              pl |-> calculatePLAtExpiration(ls, price(k))]],
         current |-> [k \in 1..passes |->
                        [stockPrice |-> price(k),
                         pl |-> calculateCurrentPL(ls, price(k), DEFAULT_RISK_FREE_RATE,
                                                   DEFAULT_IMPLIED_VOL)]]]

\* the object `new OptionsStrategy()` yields to request r: one of its own
NewOptionsStrategy_Shared(r) == 1
NewOptionsStrategy(r) == r

\* a leg of a request body
BodyLeg(type, strike, premium, quantity, optionType, expiration) ==
    [type |-> type, strike |-> strike, premium |-> premium, quantity |-> quantity,
     optionType |-> optionType, expiration |-> expiration]

\* the legs of the request bodies: none, a long call with two short puts, and a
\* single leg whose position is neither long nor short
BodyLegLists ==
    { <<>>,
      <<BodyLeg("long", 100 * Dollar, (19 * Dollar) \div 8, 1, "call", 30),
        BodyLeg("short", 100 * Dollar, 5 * Dollar, 2, "put", 30)>>,
      <<BodyLeg("sideways", 100 * Dollar, (19 * Dollar) \div 8, 1, "call", 30)>> }
BodyStockPrices == {0, 100 * Dollar}
BodyPriceRanges == {0, 25 * Dollar}
RequestBodies ==
    [method : {"POST"}, stockPrice : BodyStockPrices, legs : BodyLegLists,
     priceRange : BodyPriceRanges]
    \cup [method : {"GET"}, stockPrice : {100 * Dollar}, legs : {<<>>}, priceRange : {0}]

\* handler up to the forEach of handleStrategy: the method, the stock price,
\* the two constructors, and the check that there are legs
Receive(r, body) ==
    /\ reqs[r].pc \in {"idle", "done"}
    /\ IF body.method # "POST"
       THEN /\ reqs' = [reqs EXCEPT ![r] = [IdleRequest EXCEPT !.pc = "done", !.body = body,
                            !.response = Response(405, [error |-> "Method not allowed"])]]
            /\ heap' = heap
       ELSE IF body.stockPrice <= 0
       THEN /\ reqs' = [reqs EXCEPT ![r] = [IdleRequest EXCEPT !.pc = "done", !.body = body,
                            !.response = Response(400, [error |-> "Valid stock price is required"])]]
            /\ heap' = heap
       ELSE IF Len(body.legs) = 0
       THEN /\ reqs' = [reqs EXCEPT ![r] = [IdleRequest EXCEPT !.pc = "done", !.body = body,
                            !.strategy = NewOptionsStrategy(r),
                            !.response = Response(400, [error |-> "At least one option leg is required"])]]
            /\ heap' = [heap EXCEPT ![NewOptionsStrategy(r)] = <<>>]
       ELSE /\ reqs' = [reqs EXCEPT ![r] = [IdleRequest EXCEPT !.pc = "adding", !.body = body,
                            !.strategy = NewOptionsStrategy(r)]]
            /\ heap' = [heap EXCEPT ![NewOptionsStrategy(r)] = <<>>]
    /\ UNCHANGED <<legs, ret, args, iv, prev, loop, web>>

\* one pass of legs.forEach: strategy.addLeg with the fields of the next leg
AddNextLeg(r) ==
    /\ reqs[r].pc = "adding"
    /\ reqs[r].added < Len(reqs[r].body.legs)
    /\ LET leg == reqs[r].body.legs[reqs[r].added + 1]
       IN  heap' = [heap EXCEPT ![reqs[r].strategy] =
                       Append(@, [type |-> leg.type, strike |-> leg.strike,
                                  premium |-> leg.premium, quantity |-> leg.quantity,
                                  optionType |-> leg.optionType,
                                  expiration |-> leg.expiration])]
    /\ reqs' = [reqs EXCEPT ![r].added = @ + 1]
    /\ UNCHANGED <<legs, ret, args, iv, prev, loop, web>>

\* `riskFreeRate = 0.05` and `impliedVolatility = 0.25` in the destructuring
\* of req.body: the default for a field the body has not
BodyRiskFreeRate(body) ==
    IF "riskFreeRate" \in DOMAIN body THEN body.riskFreeRate ELSE DEFAULT_RISK_FREE_RATE
BodyImpliedVolatility(body) ==
    IF "impliedVolatility" \in DOMAIN body THEN body.impliedVolatility
    ELSE DEFAULT_IMPLIED_VOL

\* strategy.getStrategySummary(stockPrice, riskFreeRate, impliedVolatility)
Summarize(r) ==
    /\ reqs[r].pc = "adding"
    /\ reqs[r].added = Len(reqs[r].body.legs)
    /\ reqs' = [reqs EXCEPT ![r].pc = "summarized",
                            ![r].summary = getStrategySummary(heap[reqs[r].strategy],
                                               reqs[r].body.stockPrice,
                                               BodyRiskFreeRate(reqs[r].body),
                                               BodyImpliedVolatility(reqs[r].body))]
    /\ UNCHANGED <<legs, ret, args, iv, prev, heap, loop, web>>

\* generatePLCurve(strategy, priceRange, stockPrice)
Curve(r) ==
    /\ reqs[r].pc = "summarized"
    /\ reqs' = [reqs EXCEPT ![r].pc = "curved",
                            ![r].plData = generatePLCurve(heap[reqs[r].strategy],
                                              reqs[r].body.priceRange,
                                              reqs[r].body.stockPrice)]
    /\ UNCHANGED <<legs, ret, args, iv, prev, heap, loop, web>>

\* res.status(200).json(...)
Respond200(r) ==
    /\ reqs[r].pc = "curved"
    /\ reqs' = [reqs EXCEPT ![r].pc = "done",
                            ![r].response =
                                Response(200, [summary |-> reqs[r].summary,
                                               plData |-> reqs[r].plData,
                                               legs |-> Len(reqs[r].body.legs),
                                               netPremium |-> reqs[r].summary.totalPremium])]
    /\ UNCHANGED <<legs, ret, args, iv, prev, heap, loop, web>>

NextAPI ==
    \/ \E r \in Requests, body \in RequestBodies : Receive(r, body)
    \/ \E r \in Requests : AddNextLeg(r)
    \/ \E r \in Requests : Summarize(r)
    \/ \E r \in Requests : Curve(r)
    \/ \E r \in Requests : Respond200(r)

SpecAPI == Init /\ [][NextAPI]_vars

----------------------------------------------------------------------------
(* Claims about the strategy route *)

\* the range generatePLCurve is to cover for a request body
CurveRange(body) == IF body.priceRange = 0 THEN body.stockPrice \div 2 ELSE body.priceRange

\* C14: generatePLCurve returns two sequences (atExpiration and current) of
\* exactly 100 entries each; the i-th entries of both carry the same
\* stockPrice; the prices ascend, are equally spaced and lie in
\* [max(0.01, S - range), S + range], range being the priceRange given or
\* 0.5 * S when none is.
C14_CurveHasOneHundredAlignedPrices ==
    \A r \in Requests :
        reqs[r].pc = "curved" =>
            LET atExpiration == reqs[r].plData.atExpiration
                current == reqs[r].plData.current
                S == reqs[r].body.stockPrice
                range == CurveRange(reqs[r].body)
            IN  /\ Len(atExpiration) = 100
                /\ Len(current) = 100
                /\ \A i \in 1..Len(atExpiration) :
                      /\ atExpiration[i].stockPrice = current[i].stockPrice
                      /\ atExpiration[i].stockPrice >= Max(Cent, S - range)
                      /\ atExpiration[i].stockPrice <= S + range
                /\ \A i \in 2..Len(atExpiration) :
                      /\ atExpiration[i].stockPrice > atExpiration[i - 1].stockPrice
                      /\ atExpiration[i].stockPrice - atExpiration[i - 1].stockPrice
                            = atExpiration[2].stockPrice - atExpiration[1].stockPrice

\* the conditions on a request of section 3 of the specification
ValidLeg(leg) ==
    /\ leg.strike > 0
    /\ leg.premium >= 0
    /\ leg.quantity >= 1
    /\ leg.type \in PositionTypes
    /\ leg.optionType \in OptionTypes
ValidBody(body) ==
    /\ body.stockPrice > 0
    /\ \A i \in 1..Len(body.legs) : ValidLeg(body.legs[i])

\* C15: the handler runs the computations of OptionsStrategy and
\* BlackScholesCalculator only for a request with stockPrice > 0 whose legs
\* all have strike > 0, premium >= 0, quantity >= 1, a position long or short
\* and an option type call or put; every other request is answered 4xx
\* without a calculation.
C15_OnlyValidRequestsAreComputed ==
    \A r \in Requests :
        /\ reqs[r].pc \in {"summarized", "curved"} => ValidBody(reqs[r].body)
        /\ reqs[r].pc = "done" =>
              IF ValidBody(reqs[r].body) /\ reqs[r].body.method = "POST"
                 /\ Len(reqs[r].body.legs) > 0
              THEN reqs[r].response.status = 200
              ELSE reqs[r].response.status \in 400..499

\* the calls on its strategy that request r has still to make are computations
LegsAreAdded(r) ==
    \/ reqs[r].pc = "adding" /\ reqs[r].added = Len(reqs[r].body.legs)
    \/ reqs[r].pc \in {"summarized", "curved"}

\* C17: every request builds an OptionsStrategy of its own; once its legs are
\* added they are the legs of its body, and no step, of its own computations
\* (getStrategySummary with calculateCurrentPL, calculateBreakevens and
\* calculateMaxProfitLoss, generatePLCurve with calculatePLAtExpiration) or
\* of another request, changes the list or a field of a leg.
C17_LegsAreFrozenAndPrivate ==
    [][\A r \in Requests :
          LegsAreAdded(r) =>
              /\ heap[reqs[r].strategy] = reqs[r].body.legs
              /\ heap'[reqs[r].strategy] = heap[reqs[r].strategy]
              /\ \A q \in Requests \ {r} : reqs[q].strategy # reqs[r].strategy]_vars

\* two requests with different legs are computing at once, one of them with
\* its curve done
C17_Witness ==
    /\ reqs[1].pc = "curved"
    /\ LegsAreAdded(2)
    /\ heap[reqs[1].strategy] # heap[reqs[2].strategy]

----------------------------------------------------------------------------
(* /api/market-data: calculateSingleOption and calculateSpread.  Prices,    *)
(* premiums, times and Greeks are fixed-point numbers, quantities integers. *)

\* position === 'long' ? 1 : -1
PositionSign(position) == IF position = "long" THEN 1 ELSE -1

\* the P&L, the breakeven and the object calculateSingleOption returns, for
\* the price and the Greeks it has computed.  unrealizedPLPercent is kept in
\* units of 1e-5 percent, which is the fixed-point ratio before the `* 100`.
SingleOptionResult(params, theoreticalPrice, greeks) ==
    LET costBasis == params.premium * params.quantity * PositionSign(params.position)
        currentValue == theoreticalPrice * params.quantity * PositionSign(params.position)
        unrealizedPL == currentValue - costBasis
        breakeven ==
            IF params.optionType = "call"
            THEN (IF params.position = "long" THEN params.strike + params.premium
                                              ELSE params.strike - params.premium)
            ELSE (IF params.position = "long" THEN params.strike - params.premium
                                              ELSE params.strike + params.premium)
    IN  [theoreticalPrice |-> theoreticalPrice,
         greeks |->
            [delta |-> greeks.delta * params.quantity * PositionSign(params.position),
             gamma |-> greeks.gamma * params.quantity * PositionSign(params.position),
             theta |-> greeks.theta * params.quantity * PositionSign(params.position),
             vega |-> greeks.vega * params.quantity * PositionSign(params.position),
             rho |-> greeks.rho * params.quantity * PositionSign(params.position)],
         pnl |->
            [costBasis |-> costBasis,
             currentValue |-> currentValue,
             unrealizedPL |-> unrealizedPL,
             unrealizedPLPercent |->
                IF costBasis # 0 THEN FDiv(unrealizedPL, Abs(costBasis)) ELSE 0],
         breakeven |-> breakeven,
         maxProfit |->
            IF params.position = "long"
            THEN (IF params.optionType = "call" THEN PosInf
                  ELSE Fin((params.strike - params.premium) * params.quantity))
            ELSE Fin(params.premium * params.quantity),
         maxLoss |->
            IF params.position = "long"
            THEN Fin(params.premium * params.quantity)
            ELSE (IF params.optionType = "call" THEN PosInf
                  ELSE Fin((params.premium - params.strike) * params.quantity))]

calculateSingleOption(params) ==
    SingleOptionResult(params,
        IF params.optionType = "call"
        THEN blackScholesCall(params.stockPrice, params.strike, params.timeToExpiry,
                              params.riskFreeRate, params.volatility)
        ELSE blackScholesPut(params.stockPrice, params.strike, params.timeToExpiry,
                             params.riskFreeRate, params.volatility),
        calculateGreeks(params.stockPrice, params.strike, params.timeToExpiry,
                        params.riskFreeRate, params.volatility, params.optionType))

\* {...leg, stockPrice, riskFreeRate}
WithMarket(leg, stockPrice, riskFreeRate) ==
    [stockPrice |-> stockPrice, riskFreeRate |-> riskFreeRate] @@ leg

\* one pass of the forEach of calculateSpread, legCalc being the result of
\* calculateSingleOption for the leg
SpreadPass(totals, leg, index, legCalc) ==
    [totalCost |-> totals.totalCost + legCalc.pnl.costBasis,
     totalGreeks |-> [delta |-> totals.totalGreeks.delta + legCalc.greeks.delta,
                      gamma |-> totals.totalGreeks.gamma + legCalc.greeks.gamma,
                      theta |-> totals.totalGreeks.theta + legCalc.greeks.theta,
                      vega |-> totals.totalGreeks.vega + legCalc.greeks.vega,
                      rho |-> totals.totalGreeks.rho + legCalc.greeks.rho],
     legDetails |-> Append(totals.legDetails, legCalc @@ leg @@ [leg |-> index])]

RECURSIVE SpreadLoop(_, _, _, _, _)
SpreadLoop(ls, index, stockPrice, riskFreeRate, totals) ==
    IF index > Len(ls) THEN totals
    ELSE SpreadLoop(ls, index + 1, stockPrice, riskFreeRate,
                    SpreadPass(totals, ls[index], index,
                               calculateSingleOption(WithMarket(ls[index], stockPrice,
                                                                riskFreeRate))))

\* calculateSpread: the totals start at 0 and the leg details empty
SpreadResult(done) ==
    [legs |-> done.legDetails,
     strategy |-> [totalCost |-> done.totalCost,
                   totalGreeks |-> done.totalGreeks,
                   netCredit |-> done.totalCost < 0,
                   netDebit |-> done.totalCost > 0]]

calculateSpread(params) ==
    SpreadResult(SpreadLoop(params.legs, 1, params.stockPrice, params.riskFreeRate,
                            [totalCost |-> 0,
                             totalGreeks |-> [delta |-> 0, gamma |-> 0, theta |-> 0,
                                              vega |-> 0, rho |-> 0],
                             legDetails |-> <<>>]))

\* the legs of a request to /api/market-data
SpreadStrikes == {100 * ONE, 105 * ONE}
SpreadPremiums == {(19 * ONE) \div 8}
SpreadTimesToExpiry == {ONE \div 4}
SpreadVolatilities == {ONE \div 4}
SpreadStockPrices == {100 * ONE}
SpreadLegs ==
    [optionType : OptionTypes, position : PositionTypes, strike : SpreadStrikes,
     premium : SpreadPremiums, timeToExpiry : SpreadTimesToExpiry,
     volatility : SpreadVolatilities, quantity : Quantities]

InitSpread ==
    /\ legs \in UNION {[1..n -> SpreadLegs] : n \in 1..MaxLegs}
    /\ ret = Returned("new", <<>>, Undefined)
    /\ args = NoArgs
    /\ iv = Idle
    /\ prev = NoPrev
    /\ reqs = NoRequests
    /\ heap = NoStrategies
    /\ InitWeb
    /\ loop = NoLoop

CalculateSingleOption(stockPrice, riskFreeRate) ==
    /\ ret' = Returned("calculateSingleOption", <<stockPrice, riskFreeRate>>,
                       calculateSingleOption(WithMarket(legs[1], stockPrice, riskFreeRate)))
    /\ UNCHANGED <<legs, args, iv, prev, reqs, heap, loop, web>>

CalculateSpread(stockPrice, riskFreeRate) ==
    /\ ret' = Returned("calculateSpread", <<stockPrice, riskFreeRate>>,
                       calculateSpread([legs |-> legs, stockPrice |-> stockPrice,
                                        riskFreeRate |-> riskFreeRate]))
    /\ UNCHANGED <<legs, args, iv, prev, reqs, heap, loop, web>>

NextSpread ==
    \/ \E stockPrice \in SpreadStockPrices : CalculateSingleOption(stockPrice, DEFAULT_RISK_FREE_RATE)
    \/ \E stockPrice \in SpreadStockPrices : CalculateSpread(stockPrice, DEFAULT_RISK_FREE_RATE)

SpecSpread == InitSpread /\ [][NextSpread]_vars

\* x = k * m for a positive m, computed within the integer range
IsProduct(x, k, m) == x % m = 0 /\ x \div m = k

GreekNames == {"delta", "gamma", "theta", "vega", "rho"}

RECURSIVE SumOfLegGreek(_, _, _)
SumOfLegGreek(legDetails, greek, i) ==
    IF i > Len(legDetails) THEN 0
    ELSE legDetails[i].greeks[greek] + SumOfLegGreek(legDetails, greek, i + 1)

\* C16: each Greek reported for a leg is the kernel's Greek of one option
\* times +1 for long and -1 for short, times the quantity, times the lot
\* multiplier 100; each Greek of the strategy is the sum of the legs' values.
C16_GreeksAreSignedAndScaledByLot ==
    ret.op = "calculateSpread" =>
        \A greek \in GreekNames :
            /\ \A i \in 1..Len(legs) :
                  LET kernel == calculateGreeks(ret.arg[1], legs[i].strike,
                                                legs[i].timeToExpiry, ret.arg[2],
                                                legs[i].volatility, legs[i].optionType)
                  IN  IsProduct(ret.value.legs[i].greeks[greek],
                                kernel[greek] * PositionSign(legs[i].position),
                                legs[i].quantity * LOT_MULTIPLIER)
            /\ ret.value.strategy.totalGreeks[greek]
                  = SumOfLegGreek(ret.value.legs, greek, 1)

----------------------------------------------------------------------------
(* The two scans of OptionsStrategy a pass at a time, with the rounding of  *)
(* doubles.  Around strikes in the hundreds every number of the scans is a  *)
(* multiple of 1/128 dollar or of a cent fraction that a double adds and    *)
(* halves exactly.  Around 1e16 dollars the doubles are 2 dollars apart:    *)
(* prices and strikes are then counted from 1e16 (origin "1e16") and each   *)
(* sum is rounded to the nearest multiple of 2 dollars, a tie to the one    *)
(* with the even significand (1e16 / 2 is even).                            *)

\* passes of a for loop the model follows before it stops counting
MaxPasses == 410

Origins == {"0", "1e16"}
\* the distance of neighbouring doubles around the origin, in model units
Ulp(origin) == IF origin = "1e16" THEN 2 * Dollar ELSE 1

\* the double nearest to x, x counted from the origin
RoundToDouble(x, origin) ==
    LET ulp == Ulp(origin)
        below == x - (x % ulp)
        rest == x - below
    IN  IF 2 * rest < ulp THEN below
        ELSE IF 2 * rest > ulp THEN below + ulp
        ELSE IF (below \div ulp) % 2 = 0 THEN below ELSE below + ulp

\* calculateBreakevens up to the first test of the for loop (the legs are
\* not empty here, so the strikes' minimum and maximum are finite)
StartBreakevens ==
    /\ loop.pc \in {"idle", "returned"}
    /\ LET minStrike == MinStrike(legs).v
           maxStrike == MaxStrike(legs).v
           priceRange == Max(maxStrike - minStrike, BE_MIN_RANGE)
           startPrice == RoundToDouble(minStrike - priceRange \div 2, loop.origin)
           endPrice == RoundToDouble(maxStrike + priceRange \div 2, loop.origin)
       IN  loop' = [NoLoop EXCEPT !.pc = "for", !.kind = "breakevens",
                                   !.origin = loop.origin, !.step = BE_STEP,
                                   !.price = startPrice, !.startPrice = startPrice,
                                   !.endPrice = endPrice]
    /\ UNCHANGED <<legs, ret, args, iv, prev, reqs, heap, web>>

\* calculateMaxProfitLoss up to the first test of the for loop; 0.01 is far
\* below every price counted from 1e16
StartMaxProfitLoss ==
    /\ loop.pc \in {"idle", "returned"}
    /\ LET minStrike == MinStrike(legs).v
           maxStrike == MaxStrike(legs).v
           priceRange == Max(maxStrike - minStrike, MPL_MIN_RANGE)
           lowest == RoundToDouble(minStrike - priceRange, loop.origin)
           startPrice == IF loop.origin = "0" THEN Max(MPL_LOW, lowest) ELSE lowest
           endPrice == RoundToDouble(maxStrike + priceRange, loop.origin)
       IN  loop' = [NoLoop EXCEPT !.pc = "for", !.kind = "extrema",
                                   !.origin = loop.origin, !.step = MPL_STEP,
                                   !.price = startPrice, !.startPrice = startPrice,
                                   !.endPrice = endPrice]
    /\ UNCHANGED <<legs, ret, args, iv, prev, reqs, heap, web>>

\* the end of a pass of the for loop of calculateBreakevens:
\* lastPL = currentPL and price += 0.25
NextPrice(l, currentPL) ==
    [l EXCEPT !.pc = "for", !.lastPL = Num(currentPL),
              !.price = RoundToDouble(l.price + l.step, l.origin)]

\* one pass of a for loop, for calculateBreakevens as far as the while loop
ForPass ==
    /\ loop.pc = "for"
    /\ loop.price <= loop.endPrice
    /\ loop.passes < MaxPasses
    /\ LET pl == calculatePLAtExpiration(legs, loop.price)
           counted == [loop EXCEPT !.passes = @ + 1]
       IN  IF loop.kind = "extrema"
           THEN loop' = [counted EXCEPT !.maxProfit = ExtMax(@, Fin(pl)),
                                        !.maxLoss = ExtMin(@, Fin(pl)),
                                        !.price = RoundToDouble(@ + loop.step, loop.origin)]
           ELSE IF loop.lastPL # Null /\ ZeroCrossing(loop.lastPL.v, pl)
           THEN loop' = [counted EXCEPT !.pc = "while", !.halvings = 0,
                                        !.low = RoundToDouble(loop.price - loop.step, loop.origin),
                                        !.high = loop.price]
           ELSE loop' = NextPrice(counted, pl)
    /\ UNCHANGED <<legs, ret, args, iv, prev, reqs, heap, web>>

\* the test of the while loop of calculateBreakevens and, where it holds, one
\* pass; the for loop's pass ends when the test fails or the pass breaks
WhilePass ==
    /\ loop.pc = "while"
    /\ LET currentPL == calculatePLAtExpiration(legs, loop.price)
           mid == RoundToDouble((loop.low + loop.high) \div 2, loop.origin)
           midPL == calculatePLAtExpiration(legs, mid)
           halved == [loop EXCEPT !.halvings = @ + 1]
       IN  IF ~(loop.high - loop.low > BE_TOLERANCE)
           THEN loop' = NextPrice(loop, currentPL)
           ELSE IF Abs(midPL) < BE_TOLERANCE
           THEN loop' = NextPrice([halved EXCEPT !.breakevens = Append(@, mid)], currentPL)
           ELSE IF ZeroCrossing(loop.lastPL.v, midPL)
           THEN loop' = [halved EXCEPT !.high = mid]
           ELSE loop' = [halved EXCEPT !.low = mid, !.lastPL = Num(midPL)]
    /\ UNCHANGED <<legs, ret, args, iv, prev, reqs, heap, web>>

\* the for loop's test fails: what follows the loop, and the return.  Only
\* a loop in exact arithmetic gets here.
ForExit ==
    /\ loop.pc = "for"
    /\ loop.price > loop.endPrice
    /\ loop' = [loop EXCEPT !.pc = "returned"]
    /\ IF loop.kind = "breakevens"
       THEN ret' = Returned("calculateBreakevens", <<>>,
                            Dedupe([i \in 1..Len(loop.breakevens) |->
                                       RoundToCent(loop.breakevens[i])]))
       ELSE LET extremeLow == calculatePLAtExpiration(legs, MPL_LOW)
                extremeHigh == calculatePLAtExpiration(legs, loop.endPrice * 2)
                maxProfit == ExtMax(ExtMax(loop.maxProfit, Fin(extremeLow)), Fin(extremeHigh))
                maxLoss == ExtMin(ExtMin(loop.maxLoss, Fin(extremeLow)), Fin(extremeHigh))
            IN  ret' = Returned("calculateMaxProfitLoss", <<>>,
                                [maxProfit |-> IF maxProfit = NegInf THEN Null
                                               ELSE Num(maxProfit.v),
                                 maxLoss |-> IF maxLoss = PosInf THEN Null
                                             ELSE Num(maxLoss.v)])
    /\ UNCHANGED <<legs, args, iv, prev, reqs, heap, web>>

\* the strategies scanned: one or two legs, with strikes 100 and 110 counted
\* from 0, or strikes 1e16 and 1e16 + 10
LoopStrikes(origin) == IF origin = "0" THEN {100 * Dollar, 110 * Dollar} ELSE {0, 10 * Dollar}
LoopLegs(origin) ==
    [type : PositionTypes, strike : LoopStrikes(origin), premium : {(19 * Dollar) \div 8},
     quantity : {1}, optionType : OptionTypes, expiration : {30}]

InitLoop ==
    /\ \E origin \in Origins :
          /\ legs \in UNION {[1..n -> LoopLegs(origin)] : n \in 1..MaxLegs}
          /\ loop = [NoLoop EXCEPT !.origin = origin]
    /\ ret = Returned("new", <<>>, Undefined)
    /\ args = NoArgs
    /\ iv = Idle
    /\ prev = NoPrev
    /\ reqs = NoRequests
    /\ heap = NoStrategies
    /\ InitWeb

NextLoop ==
    \/ StartBreakevens
    \/ StartMaxProfitLoss
    \/ ForPass
    \/ WhilePass
    \/ ForExit

SpecLoop == InitLoop /\ [][NextLoop]_vars

\* C18: every computation of the core ends within fixed bounds:
\* impliedVolatility makes at most maxIterations (100) passes; a bisection of
\* calculateBreakevens halves its 0.25 bracket at most 5 times; and a scan
\* makes no more passes than its width over its step (and one for the first
\* price), whatever the finite positive strikes.
C18_ComputationsAreBounded ==
    /\ iv.i <= maxIterations
    /\ loop.halvings <= 5
    /\ loop.pc # "idle" =>
          loop.passes <= (loop.endPrice - loop.startPrice) \div loop.step + 1

----------------------------------------------------------------------------
(* /api/market-data: the cache, the rate limits, getMarketData with its     *)
(* provider clients, calculateHistoricalVolatility, getOptionsChain and the *)
(* handler.  An action is the code between two awaits of one request; the   *)
(* answer of a provider is drawn when it arrives.                           *)

\* cache.get(key); the entry of a symbol asked for once only is never there
CacheGet(c, key) == IF key \in DOMAIN c THEN c[key] ELSE Null

\* an entry exactly CACHE_DURATION old still counts
IsFresh_Inclusive(cached, t) == t - cached.timestamp <= CACHE_DURATION
\* Date.now() - cached.timestamp < CACHE_DURATION
IsFresh(cached, t) == t - cached.timestamp < CACHE_DURATION

getCachedData(c, key, t) ==
    IF CacheGet(c, key) # Null /\ IsFresh(CacheGet(c, key), t)
    THEN CacheGet(c, key).data
    ELSE Null

\* cache.set(key, {data, timestamp}); the entry of a symbol that is never
\* asked for again is never read and is left out
setCacheData(c, key, data, t) ==
    IF key \in DOMAIN c THEN [c EXCEPT ![key] = [data |-> data, timestamp |-> t]] ELSE c

\* canUseAPI in world w (calls, cache, rateLimits, sent): the world after the
\* reset it may make, and its answer
canUseAPI(w, provider) ==
    IF now > w.rateLimits[provider].resetTime
    THEN [world |-> [w EXCEPT !.rateLimits[provider].count = 0,
                              !.rateLimits[provider].resetTime = now + RATE_WINDOW,
                              !.sent[provider] = 0],
          ok |-> 0 < w.rateLimits[provider].limit]
    ELSE [world |-> w,
          ok |-> w.rateLimits[provider].count < w.rateLimits[provider].limit]

updateRateLimit(w, provider) == [w EXCEPT !.rateLimits[provider].count = @ + 1]

\* fetch(url of the provider's endpoint) by call c: the request leaves
Fetch(w, c, provider, endpoint) ==
    [w EXCEPT !.sent[provider] = @ + 1,
              !.calls[c].contacted = Append(@, [provider |-> provider,
                                                endpoint |-> endpoint])]

\* what a try of getMarketData's loop came to, noted in the call
Tried(w, c, provider, outcome) ==
    [w EXCEPT !.calls[c].tried = Append(@, [provider |-> provider, outcome |-> outcome])]

\* the handler's answers
Answer200(w, c, data) ==
    [w EXCEPT !.calls[c].pc = "done",
              !.calls[c].response =
                  Response(200, [success |-> TRUE, data |-> data,
                                 cached |-> ~("source" \in DOMAIN data)])]
Answer500(w, c) ==
    [w EXCEPT !.calls[c].pc = "done",
              !.calls[c].response = Response(500, [error |-> "Market data unavailable"])]

\* the loop gives up at the first error caught
AfterCatch_Rethrow(i) == Len(PROVIDERS) + 1
\* `continue` in the catch of getMarketData's loop: the provider after number i
AfterCatch(i) == i + 1

\* the for loop of getMarketData from provider number i up to the first
\* await: the fetch of a provider's client, after its key check and
\* updateRateLimit; or the throw after the loop
RECURSIVE TryProviders(_, _, _)
TryProviders(w, c, i) ==
    IF i > Len(PROVIDERS) THEN Answer500(w, c)
    ELSE IF ~canUseAPI(w, PROVIDERS[i]).ok
    THEN TryProviders(Tried(canUseAPI(w, PROVIDERS[i]).world, c, PROVIDERS[i], "skipped"),
                      c, i + 1)
    ELSE IF PROVIDERS[i] \notin env
    THEN TryProviders(Tried(canUseAPI(w, PROVIDERS[i]).world, c, PROVIDERS[i], "failed"),
                      c, AfterCatch(i))
    ELSE [Fetch(updateRateLimit(canUseAPI(w, PROVIDERS[i]).world, PROVIDERS[i]),
                c, PROVIDERS[i], "quote")
            EXCEPT !.calls[c].pc = "quote", !.calls[c].provider = i]

\* a provider's client threw after its fetch: the catch of the loop
Caught(w, c) ==
    TryProviders(Tried(w, c, PROVIDERS[w.calls[c].provider], "failed"),
                 c, AfterCatch(w.calls[c].provider))

\* setCacheData(cacheKey, data) and return data
CacheAndReturn(w, c, data) ==
    Answer200([w EXCEPT !.cache = setCacheData(@, "quote_" \o w.calls[c].symbol, data, now)],
              c, data)

\* the data object a provider's client returns
QuoteData(symbol, provider) == [symbol |-> symbol, source |-> provider, timestamp |-> now]

\* data.historicalVolatility = ...: the data with the field added
WithVolatility(data, historicalVolatility) ==
    [historicalVolatility |-> historicalVolatility] @@ data

\* a provider's client has returned data: calculateHistoricalVolatility up to
\* its fetch when asked for, with the fallback table when FMP cannot be
\* asked; then the cache
Returned200(w, c, data) ==
    IF ~w.calls[c].includeVolatility THEN CacheAndReturn(Tried(w, c, data.source, "succeeded"), c, data)
    ELSE IF "fmp" \notin env
    THEN CacheAndReturn(Tried(w, c, data.source, "succeeded"), c,
                        WithVolatility(data, "default"))
    ELSE IF ~canUseAPI(w, "fmp").ok
    THEN CacheAndReturn(Tried(canUseAPI(w, "fmp").world, c, data.source, "succeeded"), c,
                        WithVolatility(data, "default"))
    ELSE [Fetch(Tried(canUseAPI(w, "fmp").world, c, data.source, "succeeded"), c, "fmp",
                "historical-price-full")
            EXCEPT !.calls[c].pc = "volatility", !.calls[c].data = data]

World == [calls |-> calls, cache |-> cache, rateLimits |-> rateLimits, sent |-> sent]
Becomes(w) ==
    /\ calls' = w.calls
    /\ cache' = w.cache
    /\ rateLimits' = w.rateLimits
    /\ sent' = w.sent
    /\ UNCHANGED <<legs, ret, args, iv, prev, reqs, heap, loop, now, env, home>>

\* a call as the handler starts it
NewCall(type, symbol, includeVolatility) ==
    [IdleCall EXCEPT !.pc = "start", !.type = type, !.symbol = symbol,
                     !.includeVolatility = includeVolatility]

\* GET /api/market-data?symbol=...&type=quote&includeVolatility=...: the
\* handler and getMarketData up to the first await
HandleQuote(c, symbol, includeVolatility) ==
    /\ calls[c].pc = "idle"
    /\ LET w == [World EXCEPT !.calls[c] = NewCall("quote", symbol, includeVolatility)]
       IN  IF getCachedData(cache, "quote_" \o symbol, now) # Null
           THEN Becomes(Answer200([w EXCEPT !.calls[c].fromCache = TRUE], c,
                                  getCachedData(cache, "quote_" \o symbol, now)))
           ELSE Becomes(TryProviders(w, c, 1))

\* the answer to a quote fetch arrives: response.ok with a quote in it, or
\* anything else.  getPolygonData goes on to its second fetch.
QuoteResponds(c, ok) ==
    /\ calls[c].pc = "quote"
    /\ IF ~ok THEN Becomes(Caught(World, c))
       ELSE IF PROVIDERS[calls[c].provider] = "polygon"
       THEN Becomes([Fetch(World, c, "polygon", "prev") EXCEPT !.calls[c].pc = "prevClose"])
       ELSE Becomes(Returned200(World, c,
                                QuoteData(calls[c].symbol, PROVIDERS[calls[c].provider])))

\* the answer to Polygon's previous-close fetch arrives: a body json() can
\* read, or not
PrevCloseResponds(c, ok) ==
    /\ calls[c].pc = "prevClose"
    /\ IF ok THEN Becomes(Returned200(World, c, QuoteData(calls[c].symbol, "polygon")))
       ELSE Becomes(Caught(World, c))

\* the answer to the historical-prices fetch arrives: with prices to compute
\* the annualized volatility from, or not, and the fallback table is used
VolatilityResponds(c, computed) ==
    /\ calls[c].pc = "volatility"
    /\ Becomes(CacheAndReturn(World, c,
                              WithVolatility(calls[c].data,
                                             IF computed THEN "annualized" ELSE "default")))

\* what getOptionsChain returns without data
NoOptionsChain(symbol) ==
    [symbol |-> symbol, timestamp |-> now, expirations |-> <<>>,
     message |-> "Options chain data not available"]

\* GET /api/market-data?symbol=...&type=options: the handler and
\* getOptionsChain up to its await
HandleOptions(c, symbol) ==
    /\ calls[c].pc = "idle"
    /\ LET w == [World EXCEPT !.calls[c] = NewCall("options", symbol, FALSE)]
           cacheKey == "options_" \o symbol \o "_all"
       IN  IF getCachedData(cache, cacheKey, now) # Null
           THEN Becomes(Answer200([w EXCEPT !.calls[c].fromCache = TRUE], c,
                                  getCachedData(cache, cacheKey, now)))
           ELSE IF "fmp" \notin env THEN Becomes(Answer200(w, c, NoOptionsChain(symbol)))
           ELSE IF ~canUseAPI(w, "fmp").ok
           THEN Becomes(Answer200(canUseAPI(w, "fmp").world, c, NoOptionsChain(symbol)))
           ELSE Becomes([Fetch(updateRateLimit(canUseAPI(w, "fmp").world, "fmp"), c, "fmp",
                                  "options-chain")
                            EXCEPT !.calls[c].pc = "options"])

\* the answer to the options-chain fetch arrives
OptionsResponds(c, ok) ==
    /\ calls[c].pc = "options"
    /\ LET processedData == [symbol |-> calls[c].symbol, timestamp |-> now,
                             expirations |-> <<"2024-01-19">>]
           cacheKey == "options_" \o calls[c].symbol \o "_all"
       IN  IF ok
           THEN Becomes(Answer200([World EXCEPT !.cache = setCacheData(@, cacheKey,
                                                                      processedData, now)],
                                  c, processedData))
           ELSE Becomes(Answer200(World, c, NoOptionsChain(calls[c].symbol)))

\* ticks of the clock the model follows
MaxTicks == 4

\* time passes
Tick ==
    /\ now < MaxTicks * TICK_MS
    /\ now' = now + TICK_MS
    /\ UNCHANGED <<legs, ret, args, iv, prev, reqs, heap, loop, cache, rateLimits, sent,
                   env, calls, home>>

\* the keys configured: all, all but Polygon's, Twelve Data's only
Environments == {ProviderNames, ProviderNames \ {"polygon"}, {"twelvedata"}}

\* the counters and the requests sent after quotes for symbols not asked for
\* again: each was refused by Polygon and by FMP and answered by Alpha Vantage,
\* as many as Alpha Vantage allows, all at the time `now` starts from
EarlierQuotes ==
    [rateLimits |-> [p \in ProviderNames |->
                        IF p = "twelvedata" THEN InitialRateLimits[p]
                        ELSE [InitialRateLimits[p] EXCEPT !.count = ALPHAVANTAGE_LIMIT,
                                                          !.resetTime = TICK_MS + RATE_WINDOW]],
     sent |-> [p \in ProviderNames |-> IF p = "twelvedata" THEN 0 ELSE ALPHAVANTAGE_LIMIT]]

\* a server just started, or one that has served EarlierQuotes with every key
InitMarket ==
    /\ legs = <<>>
    /\ ret = Returned("new", <<>>, Undefined)
    /\ args = NoArgs
    /\ iv = Idle
    /\ prev = NoPrev
    /\ reqs = NoRequests
    /\ heap = NoStrategies
    /\ loop = NoLoop
    /\ now = TICK_MS
    /\ cache = NoCache
    /\ env \in Environments
    /\ \/ rateLimits = InitialRateLimits /\ sent = [p \in ProviderNames |-> 0]
       \/ /\ env = ProviderNames
          /\ rateLimits = EarlierQuotes.rateLimits
          /\ sent = EarlierQuotes.sent
    /\ calls = NoCalls
    /\ home = InitialHome

NextMarket ==
    \/ \E c \in CallSlots, symbol \in Symbols, includeVolatility \in BOOLEAN :
          HandleQuote(c, symbol, includeVolatility)
    \/ \E c \in CallSlots, ok \in BOOLEAN : QuoteResponds(c, ok)
    \/ \E c \in CallSlots, ok \in BOOLEAN : PrevCloseResponds(c, ok)
    \/ \E c \in CallSlots, computed \in BOOLEAN : VolatilityResponds(c, computed)
    \/ \E c \in CallSlots, symbol \in Symbols : HandleOptions(c, symbol)
    \/ \E c \in CallSlots, ok \in BOOLEAN : OptionsResponds(c, ok)
    \/ Tick

SpecMarket == InitMarket /\ [][NextMarket]_vars

----------------------------------------------------------------------------
(* Further claims about the scans *)

\* C13: the list returned by calculateBreakevens is in strictly ascending
\* order (so without a duplicate) and every element is a whole number of
\* cents.
C13_BreakevensAscendInCents ==
    ret.op = "calculateBreakevens" =>
        /\ \A i, j \in 1..Len(ret.value) : i < j => ret.value[i] < ret.value[j]
        /\ \A i \in 1..Len(ret.value) : ret.value[i] % Cent = 0

\* two breakevens were found for two legs at different strikes
C13_Witness ==
    /\ ret.op = "calculateBreakevens"
    /\ Len(ret.value) = 2
    /\ Len(legs) = 2
    /\ legs[1].strike # legs[2].strike

----------------------------------------------------------------------------
(* Claims about /api/market-data *)

ProviderIndex(p) == CHOOSE i \in 1..Len(PROVIDERS) : PROVIDERS[i] = p

QuoteCalls == {c \in CallSlots : calls[c].type = "quote"}

Refused(try) == try.outcome \in {"skipped", "failed"}

\* the tries of call c are the providers in their order, each but the last
\* refused
TriedInOrder(c) ==
    \A k \in 1..Len(calls[c].tried) :
        /\ calls[c].tried[k].provider = PROVIDERS[k]
        /\ k < Len(calls[c].tried) => Refused(calls[c].tried[k])

\* every provider before the one of contact x was refused by the time of x
EarlierRefused(c, x) ==
    \A k \in 1..(ProviderIndex(x.provider) - 1) :
        k <= Len(calls[c].tried) /\ Refused(calls[c].tried[k])

\* the data returned by a fetch are those of the provider that succeeded, the
\* first to do so
FirstSuccessReturned(c) ==
    (calls[c].pc = "done" /\ calls[c].response.status = 200 /\ ~calls[c].fromCache)
        => /\ calls[c].tried # <<>>
           /\ calls[c].tried[Len(calls[c].tried)].outcome = "succeeded"
           /\ calls[c].response.body.data.source
                  = calls[c].tried[Len(calls[c].tried)].provider

\* no provider after the one that succeeded is among the contacts xs
NoLaterContact(c, xs) ==
    \A j \in 1..Len(xs) :
        \A k \in 1..Len(calls[c].tried) :
            calls[c].tried[k].outcome = "succeeded"
                => ProviderIndex(xs[j].provider) <= k

ErrorOnlyWhenAllRefused(c) ==
    (calls[c].pc = "done" /\ calls[c].response.status = 500)
        => /\ Len(calls[c].tried) = Len(PROVIDERS)
           /\ \A k \in 1..Len(PROVIDERS) : Refused(calls[c].tried[k])

\* C22: getMarketData tries polygon, fmp, alphavantage, twelvedata in this
\* order; a provider is contacted only after every earlier one was skipped or
\* failed; the data of the first that succeeds are returned and no later
\* provider is contacted; an error is thrown only when all were skipped or
\* failed.
C22_ProvidersInOrderNoOtherContact ==
    \A c \in QuoteCalls :
        /\ TriedInOrder(c)
        /\ \A j \in 1..Len(calls[c].contacted) : EarlierRefused(c, calls[c].contacted[j])
        /\ FirstSuccessReturned(c)
        /\ NoLaterContact(c, calls[c].contacted)
        /\ ErrorOnlyWhenAllRefused(c)

\* the contacts of call c for the quote itself
QuoteContacts(c) ==
    SelectSeq(calls[c].contacted, LAMBDA x : x.endpoint \in {"quote", "prev"})

\* the contacts of call c for the historical prices
HistoricalContacts(c) ==
    SelectSeq(calls[c].contacted, LAMBDA x : x.endpoint = "historical-price-full")

\* C22 (amended): as above for the contacts made for the quote itself; with
\* includeVolatility, and only then, FMP is asked once more for historical
\* prices after a provider has succeeded, whichever provider it was.
C22_QuoteProvidersInOrder ==
    \A c \in QuoteCalls :
        /\ TriedInOrder(c)
        /\ \A j \in 1..Len(QuoteContacts(c)) : EarlierRefused(c, QuoteContacts(c)[j])
        /\ FirstSuccessReturned(c)
        /\ NoLaterContact(c, QuoteContacts(c))
        /\ ErrorOnlyWhenAllRefused(c)
        /\ Len(HistoricalContacts(c)) <= 1
        /\ \A j \in 1..Len(HistoricalContacts(c)) :
               /\ HistoricalContacts(c)[j].provider = "fmp"
               /\ calls[c].includeVolatility
               /\ calls[c].tried # <<>>
               /\ calls[c].tried[Len(calls[c].tried)].outcome = "succeeded"

\* the last provider answered a call after Alpha Vantage was skipped at its
\* limit and FMP failed, and FMP was asked for the historical prices; in
\* another call every provider was refused
C22_Witness ==
    /\ \E c \in QuoteCalls :
          /\ calls[c].pc = "done"
          /\ Len(calls[c].tried) = 4
          /\ calls[c].tried[3].outcome = "skipped"
          /\ calls[c].tried[2].outcome = "failed"
          /\ calls[c].tried[4].outcome = "succeeded"
          /\ calls[c].response.body.data.source = "twelvedata"
          /\ HistoricalContacts(c) # <<>>
    /\ \E c \in QuoteCalls : calls[c].pc = "done" /\ calls[c].response.status = 500

\* call c starts in this step as a quote request
StartsQuote(c) == calls[c].pc = "idle" /\ calls'[c].type = "quote"

\* call c comes to its answer in this step
Completes(c) == calls[c].pc # "done" /\ calls'[c].pc = "done"

QuoteKey(c) == "quote_" \o calls'[c].symbol

\* C23: a getMarketData call made while the cache holds an entry for the
\* symbol less than 60 seconds old returns the data of that entry, contacts
\* no provider and changes no rate-limit counter; an entry 60 seconds old or
\* older is never returned; the entry is stored by a successful fetch only,
\* with the data it returns and the time of its success, and a fetch in
\* which all providers fail stores nothing.
C23_FreshEntriesAreServedFromTheCache ==
    [][\A c \in CallSlots :
          /\ (StartsQuote(c) /\ cache[QuoteKey(c)] # Null
                /\ now - cache[QuoteKey(c)].timestamp < CACHE_DURATION)
               => /\ calls'[c].pc = "done"
                  /\ calls'[c].response.status = 200
                  /\ calls'[c].response.body.data = cache[QuoteKey(c)].data
                  /\ calls'[c].contacted = <<>>
                  /\ rateLimits' = rateLimits
                  /\ sent' = sent
                  /\ cache' = cache
          /\ (StartsQuote(c) /\ calls'[c].fromCache)
               => /\ cache[QuoteKey(c)] # Null
                  /\ now - cache[QuoteKey(c)].timestamp < CACHE_DURATION
          /\ (calls'[c].type = "quote" /\ Completes(c) /\ calls'[c].response.status = 500)
               => cache' = cache
          /\ (calls'[c].type = "quote" /\ Completes(c) /\ calls'[c].response.status = 200
                /\ ~calls'[c].fromCache)
               => cache' = [cache EXCEPT ![QuoteKey(c)] =
                               [data |-> calls'[c].response.body.data, timestamp |-> now]]
          /\ cache' # cache
               => \E d \in CallSlots : /\ Completes(d)
                                       /\ calls'[d].response.status = 200
                                       /\ ~calls'[d].fromCache
      ]_vars

\* one call fetched the quote and stored it, another was answered with the
\* stored data without a contact, and the entry is 30 seconds old
C23_Witness ==
    /\ \E c, d \in QuoteCalls :
          /\ c # d
          /\ calls[c].pc = "done" /\ ~calls[c].fromCache
          /\ calls[c].response.status = 200
          /\ calls[d].pc = "done" /\ calls[d].fromCache
          /\ calls[d].response.body.data = calls[c].response.body.data
          /\ calls[d].contacted = <<>>
          /\ cache["quote_" \o calls[c].symbol] # Null
          /\ now - cache["quote_" \o calls[c].symbol].timestamp = TICK_MS

\* C29: a quote request with includeVolatility=true that is answered with
\* data is answered with data that contain historicalVolatility, from the
\* cache or not, whatever was served before.
C29_VolatilityIsIncludedWhenAsked ==
    \A c \in QuoteCalls :
        (calls[c].pc = "done" /\ calls[c].includeVolatility
           /\ calls[c].response.status = 200)
            => "historicalVolatility" \in DOMAIN calls[c].response.body.data

----------------------------------------------------------------------------
(* Quote requests within one rate window, one after the other, each for a   *)
(* symbol not asked for before, on a server without a Polygon key whose     *)
(* providers answer every request.                                          *)

\* the response is sent, the next request can come
Release(c) ==
    /\ calls[c].pc = "done"
    /\ Becomes([World EXCEPT !.calls[c] = IdleCall])

InitRate ==
    /\ legs = <<>>
    /\ ret = Returned("new", <<>>, Undefined)
    /\ args = NoArgs
    /\ iv = Idle
    /\ prev = NoPrev
    /\ reqs = NoRequests
    /\ heap = NoStrategies
    /\ loop = NoLoop
    /\ now = TICK_MS
    /\ cache = NoCache
    /\ rateLimits = InitialRateLimits
    /\ sent = [p \in ProviderNames |-> 0]
    /\ env = ProviderNames \ {"polygon"}
    /\ calls = NoCalls
    /\ home = InitialHome

NextRate ==
    \/ \E includeVolatility \in BOOLEAN : HandleQuote(1, OTHER_SYMBOL, includeVolatility)
    \/ QuoteResponds(1, TRUE)
    \/ \E computed \in BOOLEAN : VolatilityResponds(1, computed)
    \/ Release(1)

SpecRate == InitRate /\ [][NextRate]_vars

\* C21: the requests sent to a provider since the last reset of its rate
\* window are never more than its limit.
C21_RequestsSentWithinLimit ==
    \A p \in ProviderNames : sent[p] <= rateLimits[p].limit

----------------------------------------------------------------------------
(* POST /api/calculate of pages/api: validateInput and the handler.  What   *)
(* res.json sends is kept as JSON: a number is Num(x), and NaN and Infinity *)
(* are null.                                                                *)

\* !x for a number x that is not NaN
Falsy(x) == x = 0

\* an entry of the errors of validateInput: the message, and the number in
\* its `Leg ${index + 1}: ` prefix, 0 for a message without the prefix
ValidationError(leg, message) == [leg |-> leg, message |-> message]

\* the body of the forEach of validateInput
ValidateLeg(leg, index) ==
    (IF Falsy(leg.strike) \/ leg.strike <= 0
     THEN <<ValidationError(index, "Strike price must be positive")>> ELSE <<>>)
    \o (IF Falsy(leg.timeToExpiry) \/ leg.timeToExpiry < 0
        THEN <<ValidationError(index, "Time to expiry must be non-negative")>> ELSE <<>>)
    \o (IF Falsy(leg.volatility) \/ leg.volatility <= 0
        THEN <<ValidationError(index, "Volatility must be positive")>> ELSE <<>>)
    \o (IF Falsy(leg.premium) \/ leg.premium < 0
        THEN <<ValidationError(index, "Premium must be non-negative")>> ELSE <<>>)
    \o (IF leg.optionType \notin {"call", "put"}
        THEN <<ValidationError(index, "Option type must be 'call' or 'put'")>> ELSE <<>>)
    \o (IF leg.position \notin {"long", "short"}
        THEN <<ValidationError(index, "Position must be 'long' or 'short'")>> ELSE <<>>)

RECURSIVE ValidateLegs(_, _)
ValidateLegs(ls, index) ==
    IF index > Len(ls) THEN <<>>
    ELSE ValidateLeg(ls[index], index) \o ValidateLegs(ls, index + 1)

validateInput(params) ==
    (IF Falsy(params.stockPrice) \/ params.stockPrice <= 0
     THEN <<ValidationError(0, "Stock price must be positive")>> ELSE <<>>)
    \o (IF params.strategy = ""
        THEN <<ValidationError(0, "Strategy type is required")>> ELSE <<>>)
    \o (IF params.strategy = "single" /\ Len(params.legs) # 1
        THEN <<ValidationError(0, "Single option strategy must have exactly 1 leg")>>
        ELSE <<>>)
    \o ValidateLegs(params.legs, 1)

\* JSON.stringify of a value of maxProfit or maxLoss
JsonExt(x) == IF x \in {PosInf, NegInf} THEN Null ELSE Num(x.v)

JsonGreeks(greeks) ==
    [delta |-> Num(greeks.delta), gamma |-> Num(greeks.gamma), theta |-> Num(greeks.theta),
     vega |-> Num(greeks.vega), rho |-> Num(greeks.rho)]

NaNGreeks == [delta |-> Null, gamma |-> Null, theta |-> Null, vega |-> Null, rho |-> Null]

\* JSON.stringify of a result of calculateSingleOption
JsonSingle(result) ==
    [theoreticalPrice |-> Num(result.theoreticalPrice),
     greeks |-> JsonGreeks(result.greeks),
     pnl |-> [costBasis |-> Num(result.pnl.costBasis),
              currentValue |-> Num(result.pnl.currentValue),
              unrealizedPL |-> Num(result.pnl.unrealizedPL),
              unrealizedPLPercent |-> Num(result.pnl.unrealizedPLPercent)],
     breakeven |-> Num(result.breakeven),
     maxProfit |-> JsonExt(result.maxProfit),
     maxLoss |-> JsonExt(result.maxLoss)]

\* JSON.stringify of the result of calculateSingleOption when stockPrice or
\* riskFreeRate is undefined: d1 is NaN, and with it the price, the Greeks
\* and what is computed from the price; `plain` is the result for a price
\* of 0, whose other fields do not depend on the price
JsonSingleNaN(plain) ==
    [theoreticalPrice |-> Null,
     greeks |-> NaNGreeks,
     pnl |-> [costBasis |-> Num(plain.pnl.costBasis),
              currentValue |-> Null,
              unrealizedPL |-> Null,
              unrealizedPLPercent |-> IF plain.pnl.costBasis # 0 THEN Null ELSE Num(0)],
     breakeven |-> Num(plain.breakeven),
     maxProfit |-> JsonExt(plain.maxProfit),
     maxLoss |-> JsonExt(plain.maxLoss)]

\* calculateSingleOption(params) as res.json sends it, params being an
\* object that may lack stockPrice and riskFreeRate
SingleOptionJson(params) ==
    IF {"stockPrice", "riskFreeRate"} \subseteq DOMAIN params
    THEN JsonSingle(calculateSingleOption(params))
    ELSE JsonSingleNaN(SingleOptionResult(params, 0,
                           [delta |-> 0, gamma |-> 0, theta |-> 0, vega |-> 0, rho |-> 0]))

\* {...leg, stockPrice, riskFreeRate} of calculateSpread, where riskFreeRate
\* is undefined when params has none
SpreadLegParams(leg, params) ==
    IF "riskFreeRate" \in DOMAIN params
    THEN WithMarket(leg, params.stockPrice, params.riskFreeRate)
    ELSE [stockPrice |-> params.stockPrice] @@ leg

\* the sum of costBasis over the leg details
RECURSIVE TotalCost(_, _)
TotalCost(legDetails, i) ==
    IF i > Len(legDetails) THEN 0
    ELSE legDetails[i].pnl.costBasis.v + TotalCost(legDetails, i + 1)

\* the sum of a Greek over the leg details: NaN as soon as one is NaN
RECURSIVE TotalGreek(_, _, _)
TotalGreek(legDetails, greek, i) ==
    IF i > Len(legDetails) THEN Num(0)
    ELSE IF legDetails[i].greeks[greek] = Null \/ TotalGreek(legDetails, greek, i + 1) = Null
    THEN Null
    ELSE Num(legDetails[i].greeks[greek].v + TotalGreek(legDetails, greek, i + 1).v)

\* the result of calculateSpread as res.json sends it, for the leg details
SpreadJsonOf(legDetails) ==
    [legs |-> legDetails,
     strategy |-> [totalCost |-> Num(TotalCost(legDetails, 1)),
                   totalGreeks |-> [g \in GreekNames |-> TotalGreek(legDetails, g, 1)],
                   netCredit |-> TotalCost(legDetails, 1) < 0,
                   netDebit |-> TotalCost(legDetails, 1) > 0]]

\* calculateSpread(params) as res.json sends it
SpreadJson(params) ==
    SpreadJsonOf([i \in 1..Len(params.legs) |->
                     SingleOptionJson(SpreadLegParams(params.legs[i], params))
                         @@ params.legs[i] @@ [leg |-> i]])

\* x || d for a number or undefined
OrDefault(params, field, d) ==
    IF field \in DOMAIN params /\ ~Falsy(params[field]) THEN params[field] ELSE d

SPREAD_STRATEGIES == {"spread", "straddle", "strangle", "iron_condor", "iron_butterfly"}

\* the 200 response for a computed result
CalculateResponse(params, result) ==
    Response(200, [success |-> TRUE,
                   input |-> [strategy |-> params.strategy,
                              stockPrice |-> params.stockPrice,
                              legs |-> Len(params.legs)],
                   result |-> result,
                   calculations |-> [model |-> "Black-Scholes",
                                     riskFreeRate |-> OrDefault(params, "riskFreeRate",
                                                                DEFAULT_RISK_FREE_RATE)]])

\* the handler of /api/calculate of pages/api
calculateHandler(params) ==
    IF params.method = "OPTIONS" THEN Response(200, [error |-> ""])
    ELSE IF params.method # "POST" THEN Response(405, [error |-> "Method not allowed"])
    ELSE IF validateInput(params) # <<>>
    THEN Response(400, [error |-> "Validation failed", details |-> validateInput(params)])
    ELSE IF params.strategy = "single"
    THEN CalculateResponse(params, SingleOptionJson(params.legs[1]))
    ELSE IF params.strategy \in SPREAD_STRATEGIES
    THEN CalculateResponse(params, SpreadJson(params))
    ELSE Response(400, [error |-> "Unsupported strategy"])

\* the legs of a request: each field on both sides of its bound, and on it
CalcStrikes == {0, 100 * ONE}
CalcTimesToExpiry == {-(ONE \div 4), 0, ONE \div 4}
CalcVolatilities == {0, ONE \div 4}
CalcPremiums == {-((19 * ONE) \div 8), 0, (19 * ONE) \div 8}
CalcLegs ==
    [optionType : {"call", "put", "straddle"}, position : {"long", "short", "flat"},
     strike : CalcStrikes, premium : CalcPremiums, timeToExpiry : CalcTimesToExpiry,
     volatility : CalcVolatilities, quantity : {1}]

\* a leg that passes validateInput
SecondLeg ==
    [optionType |-> "put", position |-> "short", strike |-> 100 * ONE,
     premium |-> (19 * ONE) \div 8, timeToExpiry |-> ONE \div 4,
     volatility |-> ONE \div 4, quantity |-> 1]

CalcRates == {DEFAULT_RISK_FREE_RATE, (3 * ONE) \div 100}

\* request bodies without riskFreeRate and with one
CalcBodies ==
    LET legLists == {<<leg>> : leg \in CalcLegs} \cup {<<leg, SecondLeg>> : leg \in CalcLegs}
        plain == [method : {"POST"}, strategy : {"single", "spread"},
                  stockPrice : {100 * ONE}, legs : legLists]
    IN  plain
        \cup {[riskFreeRate |-> r] @@ b : r \in CalcRates, b \in plain}
        \cup {[method |-> m, strategy |-> st, stockPrice |-> sp, legs |-> <<SecondLeg>>] :
                 m \in {"POST", "GET", "OPTIONS"}, st \in {"", "butterfly", "single"},
                 sp \in {0, 100 * ONE}}

InitCalculate ==
    /\ legs = <<>>
    /\ ret = Returned("new", <<>>, Undefined)
    /\ args \in CalcBodies
    /\ iv = Idle
    /\ prev = NoPrev
    /\ reqs = NoRequests
    /\ heap = NoStrategies
    /\ loop = NoLoop
    /\ InitWeb

\* the request args arrives and is answered
PostCalculate ==
    /\ ret.op = "new"
    /\ ret' = Returned("handler", args, calculateHandler(args))
    /\ UNCHANGED <<legs, args, iv, prev, reqs, heap, loop, web>>

NextCalculate == PostCalculate

SpecCalculate == InitCalculate /\ [][NextCalculate]_vars

HasError(response, leg, message) ==
    /\ response.status = 400
    /\ "details" \in DOMAIN response.body
    /\ \E i \in 1..Len(response.body.details) :
          response.body.details[i] = ValidationError(leg, message)

\* the bound each message of validateInput states, for one leg
MeetsStatedBounds(leg) ==
    /\ leg.strike > 0
    /\ leg.timeToExpiry >= 0
    /\ leg.volatility > 0
    /\ leg.premium >= 0
    /\ leg.optionType \in {"call", "put"}
    /\ leg.position \in {"long", "short"}

\* C24: validateInput reports an error for a field of a leg exactly when the
\* field violates the bound its message states; a request whose legs meet
\* the bounds (premium 0 and timeToExpiry 0 among them) is not rejected
\* with 400.
C24_ErrorsMatchTheirMessages ==
    (ret.op = "handler" /\ ret.arg.method = "POST")
        => /\ \A i \in 1..Len(ret.arg.legs) :
                /\ HasError(ret.value, i, "Strike price must be positive")
                       <=> ret.arg.legs[i].strike <= 0
                /\ HasError(ret.value, i, "Time to expiry must be non-negative")
                       <=> ret.arg.legs[i].timeToExpiry < 0
                /\ HasError(ret.value, i, "Volatility must be positive")
                       <=> ret.arg.legs[i].volatility <= 0
                /\ HasError(ret.value, i, "Premium must be non-negative")
                       <=> ret.arg.legs[i].premium < 0
                /\ HasError(ret.value, i, "Option type must be 'call' or 'put'")
                       <=> ret.arg.legs[i].optionType \notin {"call", "put"}
                /\ HasError(ret.value, i, "Position must be 'long' or 'short'")
                       <=> ret.arg.legs[i].position \notin {"long", "short"}
           /\ (/\ \A i \in 1..Len(ret.arg.legs) : MeetsStatedBounds(ret.arg.legs[i])
               /\ ret.arg.stockPrice > 0
               /\ ret.arg.strategy \in {"single"} \cup SPREAD_STRATEGIES
               /\ ret.arg.strategy = "single" => Len(ret.arg.legs) = 1)
                  => ret.value.status # 400

\* the rate the documentation of the endpoint promises: the request's, 0.05
\* when the request has none
DocumentedRate(params) ==
    IF "riskFreeRate" \in DOMAIN params THEN params.riskFreeRate ELSE DEFAULT_RISK_FREE_RATE

\* C25: a computed response holds, for every leg, the result of pricing it
\* with the request's stockPrice and riskFreeRate (0.05 when omitted), and
\* reports that rate, for 'single' as for the multi-leg strategies.
C25_LegsPricedWithRequestRate ==
    (ret.op = "handler" /\ ret.value.status = 200 /\ ret.arg.method = "POST")
        => /\ ret.value.body.calculations.riskFreeRate = DocumentedRate(ret.arg)
           /\ ret.arg.strategy = "single"
                => ret.value.body.result =
                       JsonSingle(calculateSingleOption(
                           WithMarket(ret.arg.legs[1], ret.arg.stockPrice,
                                      DocumentedRate(ret.arg))))
           /\ ret.arg.strategy \in SPREAD_STRATEGIES
                => \A i \in 1..Len(ret.arg.legs) :
                       ret.value.body.result.legs[i].theoreticalPrice =
                           JsonSingle(calculateSingleOption(
                               WithMarket(ret.arg.legs[i], ret.arg.stockPrice,
                                          DocumentedRate(ret.arg)))).theoreticalPrice

----------------------------------------------------------------------------
(* calculateBreakevens for strategies whose strikes are below 25 *)

LowStrikes == {10 * Dollar}
LowPremiums == {0, (19 * Dollar) \div 8}
LowLegs ==
    [type : PositionTypes, strike : LowStrikes, premium : LowPremiums, quantity : {1},
     optionType : OptionTypes, expiration : Expirations]

\* a strategy after addLeg for each of its legs
InitLowStrike ==
    /\ legs \in UNION {[1..n -> LowLegs] : n \in 1..MaxLegs}
    /\ ret = Returned("addLeg", <<>>, Undefined)
    /\ args = NoArgs
    /\ iv = Idle
    /\ prev = NoPrev
    /\ reqs = NoRequests
    /\ heap = NoStrategies
    /\ loop = NoLoop
    /\ InitWeb

NextLowStrike == CalculateBreakevens

SpecLowStrike == InitLowStrike /\ [][NextLowStrike]_vars

\* C26: every price returned by calculateBreakevens is strictly positive.
C26_BreakevensArePositive ==
    ret.op = "calculateBreakevens" => \A i \in 1..Len(ret.value) : ret.value[i] > 0

----------------------------------------------------------------------------
(* /api/calculate for bodies that name their riskFreeRate and their         *)
(* impliedVolatility, one request at a time                                 *)

RatedLegLists ==
    { <<BodyLeg("long", 100 * Dollar, (19 * Dollar) \div 8, 1, "call", 30)>>,
      <<BodyLeg("long", 100 * Dollar, (19 * Dollar) \div 8, 1, "call", 30),
        BodyLeg("short", 100 * Dollar, 5 * Dollar, 2, "put", 30)>> }
BodyRates == {DEFAULT_RISK_FREE_RATE, (3 * ONE) \div 100}
BodyVolatilities == {(2 * ONE) \div 5}

RatedBodies ==
    LET plain == [method : {"POST"}, stockPrice : BodyStockPrices, legs : RatedLegLists,
                  priceRange : BodyPriceRanges]
    IN  plain
        \cup {[riskFreeRate |-> rate] @@ b : rate \in BodyRates, b \in plain}
        \cup {[impliedVolatility |-> vol] @@ b : vol \in BodyVolatilities, b \in plain}
        \cup {[riskFreeRate |-> rate, impliedVolatility |-> vol] @@ b :
                 rate \in BodyRates, vol \in BodyVolatilities, b \in plain}

NextCurve ==
    \/ \E body \in RatedBodies : Receive(1, body)
    \/ AddNextLeg(1)
    \/ Summarize(1)
    \/ Curve(1)
    \/ Respond200(1)

SpecCurve == Init /\ [][NextCurve]_vars

\* C27: in a strategy response every point of plData.current is the current
\* P&L at its price for the riskFreeRate and the impliedVolatility of the
\* request, the ones summary.currentPL was computed with; so the point at
\* the request's stockPrice carries summary.currentPL.
C27_CurveUsesRequestRateAndVolatility ==
    \A r \in Requests :
        (reqs[r].pc = "done" /\ reqs[r].response.status = 200)
            => \A k \in 1..Len(reqs[r].response.body.plData.current) :
                  LET point == reqs[r].response.body.plData.current[k]
                  IN  /\ point.pl = calculateCurrentPL(heap[reqs[r].strategy],
                                        point.stockPrice,
                                        BodyRiskFreeRate(reqs[r].body),
                                        BodyImpliedVolatility(reqs[r].body))
                      /\ point.stockPrice = reqs[r].body.stockPrice
                            => point.pl = reqs[r].response.body.summary.currentPL

----------------------------------------------------------------------------
(* calculateCurrentPL of strategies whose legs have expired or expire today *)

\* days from now to the expiration date: a week ago, today, in 30 days
ExpiryDays == {-7, 0, 30}
ExpiryStockPrices == {90 * Dollar, 100 * Dollar, 110 * Dollar}
ExpiryRates == {DEFAULT_RISK_FREE_RATE, (3 * ONE) \div 100}
ExpiryVolatilities == {DEFAULT_IMPLIED_VOL, (2 * ONE) \div 5}
ExpiryLegs ==
    [type : PositionTypes, strike : {100 * Dollar}, premium : {(19 * Dollar) \div 8},
     quantity : Quantities, optionType : OptionTypes, expiration : ExpiryDays]

\* a strategy after addLeg for each of its legs
InitExpiry ==
    /\ legs \in UNION {[1..n -> ExpiryLegs] : n \in 1..MaxLegs}
    /\ ret = Returned("addLeg", <<>>, Undefined)
    /\ args = NoArgs
    /\ iv = Idle
    /\ prev = NoPrev
    /\ reqs = NoRequests
    /\ heap = NoStrategies
    /\ loop = NoLoop
    /\ InitWeb

CalculateCurrentPL(stockPrice, riskFreeRate, impliedVol) ==
    /\ ret' = Returned("calculateCurrentPL", <<stockPrice, riskFreeRate, impliedVol>>,
                       calculateCurrentPL(legs, stockPrice, riskFreeRate, impliedVol))
    /\ UNCHANGED <<legs, args, iv, prev, reqs, heap, loop, web>>

NextExpiry ==
    \E stockPrice \in ExpiryStockPrices, riskFreeRate \in ExpiryRates,
       impliedVol \in ExpiryVolatilities :
        CalculateCurrentPL(stockPrice, riskFreeRate, impliedVol)

SpecExpiry == InitExpiry /\ [][NextExpiry]_vars

NoneInTheFuture(ls) == \A i \in 1..Len(ls) : ls[i].expiration <= 0

\* C28: when no leg's expiration lies in the future, calculateCurrentPL(S, r,
\* sigma) equals calculatePLAtExpiration(S); the first is kept in ticks of
\* 1e-4 dollar and the second in units of 1/3200 dollar, 8 ticks being 25
\* units.
C28_ExpiredCurrentPLIsExpirationPL ==
    (ret.op = "calculateCurrentPL" /\ NoneInTheFuture(legs))
        => ret.value * 8 = calculatePLAtExpiration(legs, ret.arg[1]) * 25

\* the current P&L of two expired legs, a long and a short one, was computed
\* off the strike with a rate and a volatility other than the defaults
C28_Witness ==
    /\ ret.op = "calculateCurrentPL"
    /\ Len(legs) = 2
    /\ NoneInTheFuture(legs)
    /\ legs[1].type = "long" /\ legs[2].type = "short"
    /\ legs[1].expiration # legs[2].expiration
    /\ ret.arg = <<110 * Dollar, (3 * ONE) \div 100, (2 * ONE) \div 5>>
    /\ ret.value # 0

----------------------------------------------------------------------------
(* The Home page: the symbol, the two fetches its effect starts and their   *)
(* answers.  A fetch in flight is kept with the ticker it was started for.  *)

\* symbol changes the model follows after the mount
MaxChanges == 2

\* what the user can type
TypedSymbols == {"aapl", "AAPL", "msft", ""}

\* newSymbol.toUpperCase()
toUpperCase(str) ==
    CASE str = "aapl" -> "AAPL"
      [] str = "msft" -> "MSFT"
      [] OTHER -> str

\* the body the server sends for a ticker
DataFor(ticker) == [symbol |-> ticker]

\* the effect on [symbol]: fetchMarketData(symbol) and fetchOptionsChain(symbol)
\* up to their awaits, in the state h of the page
SymbolEffect(h) ==
    IF h.symbol = "" THEN h
    ELSE [h EXCEPT !.loading = [marketData |-> TRUE, optionsChain |-> TRUE],
                   !.error = "null",
                   !.started = @ + 1,
                   !.fetches = @ \cup {[kind |-> k, ticker |-> h.symbol, id |-> h.started + 1] :
                                          k \in {"marketData", "optionsChain"}}]

\* the first render and its effect
Mount ==
    /\ ~home.mounted
    /\ home' = SymbolEffect([home EXCEPT !.mounted = TRUE])
    /\ UNCHANGED <<legs, ret, args, iv, prev, reqs, heap, loop, now, cache, rateLimits,
                   sent, env, calls>>

\* handleSymbolChange, and the effect when the symbol is another one
HandleSymbolChange(newSymbol) ==
    /\ home.mounted
    /\ home.started <= MaxChanges
    /\ IF toUpperCase(newSymbol) = home.symbol
       THEN home' = [home EXCEPT !.error = "null"]
       ELSE home' = SymbolEffect([home EXCEPT !.symbol = toUpperCase(newSymbol),
                                              !.error = "null"])
    /\ UNCHANGED <<legs, ret, args, iv, prev, reqs, heap, loop, now, cache, rateLimits,
                   sent, env, calls>>

\* fetchMarketData after its await: setMarketData(data), or the catch; then
\* the finally
MarketDataResponds(f, ok) ==
    /\ f \in home.fetches
    /\ f.kind = "marketData"
    /\ home' = [home EXCEPT !.fetches = @ \ {f},
                            !.marketData = IF ok THEN DataFor(f.ticker) ELSE @,
                            !.error = IF ok THEN @ ELSE "Failed to fetch market data. Please try again.",
                            !.loading.marketData = FALSE]
    /\ UNCHANGED <<legs, ret, args, iv, prev, reqs, heap, loop, now, cache, rateLimits,
                   sent, env, calls>>

\* fetchOptionsChain after its await: setOptionsChainData(data), or the catch
\* that only logs; then the finally
OptionsChainResponds(f, ok) ==
    /\ f \in home.fetches
    /\ f.kind = "optionsChain"
    /\ home' = [home EXCEPT !.fetches = @ \ {f},
                            !.optionsChainData = IF ok THEN DataFor(f.ticker) ELSE @,
                            !.loading.optionsChain = FALSE]
    /\ UNCHANGED <<legs, ret, args, iv, prev, reqs, heap, loop, now, cache, rateLimits,
                   sent, env, calls>>

NextHome ==
    \/ Mount
    \/ \E newSymbol \in TypedSymbols : HandleSymbolChange(newSymbol)
    \/ \E f \in home.fetches, ok \in BOOLEAN : MarketDataResponds(f, ok)
    \/ \E f \in home.fetches, ok \in BOOLEAN : OptionsChainResponds(f, ok)

SpecHome == Init /\ [][NextHome]_vars

\* C30: once every fetch has completed, the market data shown (when no
\* market-data fetch has failed since the last change) and the options chain
\* shown are those fetched for the current symbol.
C30_DataIsForCurrentSymbol ==
    (home.mounted /\ home.fetches = {} /\ home.symbol # "")
        => /\ home.error = "null"
                => home.marketData # Null /\ home.marketData.symbol = home.symbol
           /\ home.optionsChainData # Null
                => home.optionsChainData.symbol = home.symbol


====
